---- MODULE Spec2Model ----
(***************************************************************************)
(* State-machine model of the CAN power-board session of                  *)
(* src/powerboard/power_board.py (class PowerBoard): connect/disconnect,  *)
(* the query/response exchange get_status and the streaming loop          *)
(* stream_auto_report, with the frame codec they use.                     *)
(*                                                                         *)
(* Further sections model the tele-operation programs of                  *)
(* src/kbot_control (joystick.py, joystick16.py, keyboard.py): the        *)
(* command vector, max_cmd and the threads that read the input devices.   *)
(*                                                                         *)
(* Time is counted in ticks of 50 ms.  Optional values (Python's None)    *)
(* are sequences of length 0 or 1.                                         *)
(***************************************************************************)
EXTENDS Integers, Sequences, FiniteSets, TLC

VARIABLES
    bus,            \* self.bus: "none" (None) or "open"
    pc,             \* position of the session's single thread of execution
    clock,          \* the value time.time() returns, in ticks
    start_time,     \* get_status: local start_time
    status_data,    \* get_status: local status_data
    power_data,     \* get_status: local power_data
    latest_status,  \* stream_auto_report: local latest_status
    latest_power,   \* stream_auto_report: local latest_power
    log,            \* history: outcomes of bus.recv in the current call (None outcomes excluded)
    sent,           \* history: bus.send attempts of the current call
    rows,           \* history: data rows printed by the current stream
    ret,            \* the last call that returned, and its value
    args,           \* the input of the codec function or command under study
    ctrl,           \* tele-op: the Controller (buttons, previous buttons, sticks)
    max_cmd,        \* tele-op: Commander.max_cmd
    cmds,           \* tele-op: Commander.cmds, the command vector
    updated,        \* history: the LB state the last command update read
    datagrams,      \* history: datagrams sent since the last command update
    tele_pc,        \* tele-op: position of the main loop and of the input thread
    _pressed_codes, \* keyboard tele-op: KeyboardState._pressed_codes
    _key_last_seen, \* keyboard tele-op: when stdin last showed each pressed key
    _last_adjust_time,  \* keyboard tele-op: when max_cmd was last adjusted
    reads,          \* history: how many os.read calls returned key input
    last_input      \* history: when stdin last showed a key, if it ever did

\* the state of the tele-operation programs
teleop == <<ctrl, max_cmd, cmds, updated, datagrams, tele_pc,
            _pressed_codes, _key_last_seen, _last_adjust_time, reads, last_input>>

\* the state of the joystick programs only, and of the keyboard program only
gamepad == <<ctrl, updated>>
keyboard == <<_pressed_codes, _key_last_seen, _last_adjust_time, reads, last_input>>

\* the state of the power-board session
board == <<bus, pc, clock, start_time, status_data, power_data,
           latest_status, latest_power, log, sent, rows, ret>>

vars == <<bus, pc, clock, start_time, status_data, power_data,
          latest_status, latest_power, log, sent, rows, ret, args,
          ctrl, max_cmd, cmds, updated, datagrams, tele_pc,
          _pressed_codes, _key_last_seen, _last_adjust_time, reads, last_input>>

---------------------------------------------------------------------------
(* Bounds of the model *)

\* most receive outcomes (frames, receive errors) recorded per call
MaxRecv == 3
\* longest payload handed to the frame parsers
MaxPayloadLen == 8
\* most bus.send attempts recorded while a second worker issues commands
MaxSent == 2
\* most frames waiting in the receive queue when get_status is called
MaxQueue == 2
\* time.time() at the start of a get_status wait is drawn from 0..MaxStart
MaxStart == 1

\* keyboard tele-op: os.read calls that return key input, and the time the
\* program is followed for, in ticks
MaxReads == 2
MaxClock == 11

---------------------------------------------------------------------------
(* Protocol constants *)

POWER_BOARD_ID == 170   \* 0xAA
TIMEOUT == 20           \* 1.0 s
RECV_TIMEOUT == 2       \* bus.recv(timeout=0.1) in get_status

CONTROL == 4097         \* 0x1001
QUERY == 4098           \* 0x1002
STATUS == 4099          \* 0x1003
POWER_DATA == 4100      \* 0x1004

None == <<>>
Some(x) == <<x>>

---------------------------------------------------------------------------
(* Integer bit operations of Python, on naturals *)

RECURSIVE BitAnd(_, _)
BitAnd(a, b) ==
    IF a = 0 \/ b = 0 THEN 0
    ELSE (IF a % 2 = 1 /\ b % 2 = 1 THEN 1 ELSE 0) + 2 * BitAnd(a \div 2, b \div 2)

RECURSIVE BitOr(_, _)
BitOr(a, b) ==
    IF a = 0 THEN b
    ELSE IF b = 0 THEN a
    ELSE (IF a % 2 = 1 \/ b % 2 = 1 THEN 1 ELSE 0) + 2 * BitOr(a \div 2, b \div 2)

---------------------------------------------------------------------------
(* Frame codec *)

\* A Python integer below 2^32, kept as two 16-bit halves: hi * 65536 + lo
Wide(n) == [hi |-> n \div 65536, lo |-> n % 65536]

\* a | b on two such integers
WideOr(a, b) == [hi |-> BitOr(a.hi, b.hi), lo |-> BitOr(a.lo, b.lo)]

\* the literal 0x80000000, the extended-frame flag
ExtendedFlag == [hi |-> 32768, lo |-> 0]

\* variant of the identifier: the extended-frame flag is not or-ed in
_create_can_id_unflagged(message_type) ==
    Wide(BitOr(BitAnd(POWER_BOARD_ID, 255), BitAnd(message_type, 8191) * 256))

\* (POWER_BOARD_ID & 0xFF) | ((message_type & 0x1FFF) << 8), then | 0x80000000
_create_can_id(message_type) ==
    LET can_id == BitOr(BitAnd(POWER_BOARD_ID, 255), BitAnd(message_type, 8191) * 256)
    IN  WideOr(Wide(can_id), ExtendedFlag)

\* can.Message(arbitration_id=..., data=..., is_extended_id=...)
Message(id, data, ext) ==
    [arbitration_id |-> id, data |-> data, is_extended_id |-> ext]

\* PowerBoardControl() with its defaults
PowerBoardControl ==
    [fan |-> FALSE, precharge_voltage |-> FALSE, output_to_motor |-> FALSE,
     main_control |-> FALSE, restart |-> FALSE, clear_faults |-> FALSE,
     auto_report |-> FALSE, reserved |-> FALSE]

Bit(b) == IF b THEN 1 ELSE 0

\* variant of the packing: restart and clear_faults change places
ControlMessageSwapped(control) ==
    Message(_create_can_id(CONTROL),
            << Bit(control.fan), Bit(control.precharge_voltage),
               Bit(control.output_to_motor), Bit(control.main_control),
               Bit(control.clear_faults), Bit(control.restart),
               Bit(control.auto_report), Bit(control.reserved) >>,
            TRUE)

\* the message send_control_frame builds
ControlMessage(control) ==
    Message(_create_can_id(CONTROL),
            << Bit(control.fan), Bit(control.precharge_voltage),
               Bit(control.output_to_motor), Bit(control.main_control),
               Bit(control.restart), Bit(control.clear_faults),
               Bit(control.auto_report), Bit(control.reserved) >>,
            TRUE)

\* variant of send_query_frame: the frame carries the Control type
QueryMessageOfControlType ==
    Message(_create_can_id(CONTROL), <<0, 0, 0, 0, 0, 0, 0, 0>>, TRUE)

\* the message send_query_frame builds
QueryMessage ==
    Message(_create_can_id(QUERY), <<0, 0, 0, 0, 0, 0, 0, 0>>, TRUE)

\* variant of enable_auto_report: the flag is set whatever the argument
AutoReportMessageAlwaysOn(enable) ==
    ControlMessage([PowerBoardControl EXCEPT !.auto_report = TRUE])

\* variant of enable_auto_report: the flag lands in the reserved field
AutoReportMessageInReserved(enable) ==
    ControlMessage([PowerBoardControl EXCEPT !.reserved = enable])

\* the message enable_auto_report(enable) has send_control_frame build
AutoReportMessage(enable) ==
    ControlMessage([PowerBoardControl EXCEPT !.auto_report = enable])

\* one call of bus.send: the message and whether send returned (TRUE) or raised
SendAttempt(m, ok) == [msg |-> m, ok |-> ok]

\* variant of the unpacking: little-endian ('<H')
UnpackHLittleEndian(data, i) == data[i + 1] + data[i + 2] * 256

\* struct.unpack('>H', data[i:i+2])[0], i counted from 0
UnpackH(data, i) == data[i + 1] * 256 + data[i + 2]

\* variant of the scaling: integer division, the hundredths are lost
Div100Truncating(raw) == [whole |-> raw \div 100, hundredths |-> 0]

\* raw / 100.0, kept exactly as whole units and hundredths
Div100(raw) == [whole |-> raw \div 100, hundredths |-> raw % 100]

\* variant of the length check: eight bytes are refused too
ParseRaisesUpToEight(data) == Len(data) <= 8

\* len(data) < 8: the parse raises ValueError
ParseRaises(data) == Len(data) < 8

_parse_status_frame(data) ==
    [battery_voltage  |-> Div100(UnpackH(data, 0)),
     motor_voltage    |-> Div100(UnpackH(data, 2)),
     current_sampling |-> Div100(UnpackH(data, 4)),
     fault_status     |-> UnpackH(data, 6)]

\* variant of the power parser: the arm fields are read before the leg fields
_parse_power_data_frame_arms_first(data) ==
    [left_leg_power  |-> Div100(UnpackH(data, 4)),
     right_leg_power |-> Div100(UnpackH(data, 6)),
     left_arm_power  |-> Div100(UnpackH(data, 0)),
     right_arm_power |-> Div100(UnpackH(data, 2))]

_parse_power_data_frame(data) ==
    [left_leg_power  |-> Div100(UnpackH(data, 0)),
     right_leg_power |-> Div100(UnpackH(data, 2)),
     left_arm_power  |-> Div100(UnpackH(data, 4)),
     right_arm_power |-> Div100(UnpackH(data, 6))]

\* PowerBoardFaultBits
POWER_CHIP_OVERCURRENT == 0
POWER_CHIP_OVERTEMP == 1
POWER_CHIP_SHORT_CIRCUIT == 2
SAMPLING_OVERCURRENT == 3
VBUS_OVERVOLTAGE == 4
VBUS_UNDERVOLTAGE == 5
VMBUS_OVERVOLTAGE == 6
VMBUS_UNDERVOLTAGE == 7

\* bool(fault_status & (1 << bit))
FaultBit(fault_status, bit) == BitAnd(fault_status, 2 ^ bit) # 0

\* variant of get_faults: overtemp and short-circuit test each other's bit
get_faults_swapped(fault_status) ==
    [power_chip_overcurrent   |-> FaultBit(fault_status, POWER_CHIP_OVERCURRENT),
     power_chip_overtemp      |-> FaultBit(fault_status, POWER_CHIP_SHORT_CIRCUIT),
     power_chip_short_circuit |-> FaultBit(fault_status, POWER_CHIP_OVERTEMP),
     sampling_overcurrent     |-> FaultBit(fault_status, SAMPLING_OVERCURRENT),
     vbus_overvoltage         |-> FaultBit(fault_status, VBUS_OVERVOLTAGE),
     vbus_undervoltage        |-> FaultBit(fault_status, VBUS_UNDERVOLTAGE),
     vmbus_overvoltage        |-> FaultBit(fault_status, VMBUS_OVERVOLTAGE),
     vmbus_undervoltage       |-> FaultBit(fault_status, VMBUS_UNDERVOLTAGE)]

\* PowerBoardStatus.get_faults, of a status whose fault_status is given
get_faults(fault_status) ==
    [power_chip_overcurrent   |-> FaultBit(fault_status, POWER_CHIP_OVERCURRENT),
     power_chip_overtemp      |-> FaultBit(fault_status, POWER_CHIP_OVERTEMP),
     power_chip_short_circuit |-> FaultBit(fault_status, POWER_CHIP_SHORT_CIRCUIT),
     sampling_overcurrent     |-> FaultBit(fault_status, SAMPLING_OVERCURRENT),
     vbus_overvoltage         |-> FaultBit(fault_status, VBUS_OVERVOLTAGE),
     vbus_undervoltage        |-> FaultBit(fault_status, VBUS_UNDERVOLTAGE),
     vmbus_overvoltage        |-> FaultBit(fault_status, VMBUS_OVERVOLTAGE),
     vmbus_undervoltage       |-> FaultBit(fault_status, VMBUS_UNDERVOLTAGE)]

\* variant of the address extraction: every frame counts as the board's
TargetAddrAny(m) == POWER_BOARD_ID

\* msg.arbitration_id & 0xFF
TargetAddr(m) == BitAnd(m.arbitration_id.lo, 255)

\* variant of the type extraction: masked with 0xFF
MsgTypeLowByte(m) == BitAnd(m.arbitration_id.hi * 256 + m.arbitration_id.lo \div 256, 255)

\* (msg.arbitration_id >> 8) & 0x1FFF
MsgType(m) == BitAnd(m.arbitration_id.hi * 256 + m.arbitration_id.lo \div 256, 8191)

---------------------------------------------------------------------------
(* What the transport can deliver *)

PayloadA == <<48, 57, 39, 16, 0, 100, 0, 5>>
PayloadB == <<3, 232, 3, 232, 1, 244, 1, 244>>
PayloadShort == <<48, 57, 39, 16, 0, 100, 0>>

\* a 29-bit identifier as python-can reports it for a received frame: target
\* address in bits 0..7, type in bits 8..20
RxId(target, type) == Wide(target + type * 256)

\* the frames bus.recv is taken to deliver
Messages ==
    { Message(RxId(POWER_BOARD_ID, STATUS), PayloadA, TRUE),
      Message(RxId(POWER_BOARD_ID, STATUS), PayloadB, TRUE),
      Message(RxId(POWER_BOARD_ID, POWER_DATA), PayloadA, TRUE),
      Message(RxId(POWER_BOARD_ID, POWER_DATA), PayloadB, TRUE),
      Message(RxId(POWER_BOARD_ID, STATUS), PayloadShort, TRUE),
      Message(RxId(POWER_BOARD_ID, POWER_DATA), PayloadShort, TRUE),
      Message(RxId(POWER_BOARD_ID, CONTROL), PayloadA, TRUE),
      Message(RxId(85, STATUS), PayloadA, TRUE),    \* target 0x55, not the board
      Message(RxId(POWER_BOARD_ID, STATUS), PayloadA, FALSE) }

\* a log entry: a delivered frame, or a bus.recv call that raised
Delivered(m) == [kind |-> "msg", msg |-> m]
RecvRaised == [kind |-> "error", msg |-> Message(Wide(0), <<>>, FALSE)]

\* how long a bus.recv(timeout=0.1) that delivers or raises may take
RecvDelays == 0 .. RECV_TIMEOUT

---------------------------------------------------------------------------
(* Tele-operation programs of src/kbot_control: the numbers they compute  *)
(* with.  A Python float is an IEEE-754 double; the doubles these         *)
(* programs reach are non-negative multiples of 2^-57 below 2, written as *)
(* <<hi, lo>> with value (hi * 2^28 + lo) * 2^-57, and a signed float is  *)
(* [neg, mag] so that -0.0 differs from 0.0.                              *)

Base == 2 ^ 28

Zero == <<0, 0>>
One == <<2 ^ 29, 0>>

\* the literal 0.1, the double 0x3FB999999999999A
Tenth == <<53687091, 53687092>>

FloatLess(a, b) == a[1] < b[1] \/ (a[1] = b[1] /\ a[2] < b[2])

\* Python's min(a, b) and max(a, b): the first argument unless the second
\* is strictly smaller (larger)
FloatMin(a, b) == IF FloatLess(b, a) THEN b ELSE a
FloatMax(a, b) == IF FloatLess(a, b) THEN b ELSE a

\* the spacing of the doubles around a value, in units of 2^-57: a double
\* keeps 53 significant bits
Granule(hi) ==
    IF hi >= 2 ^ 29 THEN 32
    ELSE IF hi >= 2 ^ 28 THEN 16
    ELSE IF hi >= 2 ^ 27 THEN 8
    ELSE IF hi >= 2 ^ 26 THEN 4
    ELSE IF hi >= 2 ^ 25 THEN 2
    ELSE 1

\* round an exact result to the nearest double, ties to even
RoundFloat(hi, lo) ==
    LET g == Granule(hi)
        r == lo % g
        down == lo - r
        up == (2 * r > g) \/ (2 * r = g /\ (down \div g) % 2 = 1)
        rounded == IF up THEN down + g ELSE down
    IN  IF rounded = Base THEN <<hi + 1, 0>> ELSE <<hi, rounded>>

\* a + b
FloatAdd(a, b) ==
    LET lo == a[2] + b[2]
    IN  RoundFloat(a[1] + b[1] + lo \div Base, lo % Base)

\* a - b, for a >= b
FloatSub(a, b) ==
    LET borrow == IF a[2] < b[2] THEN 1 ELSE 0
    IN  RoundFloat(a[1] - b[1] - borrow, a[2] - b[2] + borrow * Base)

\* a / 2, exact for the doubles above 2^-56
FloatHalf(a) == <<a[1] \div 2, (a[1] % 2) * (Base \div 2) + a[2] \div 2>>

Signed(neg, mag) == [neg |-> neg, mag |-> mag]
PosZero == Signed(FALSE, Zero)
FloatNeg(x) == Signed(~x.neg, x.mag)
IsZero(x) == x.mag = Zero

\* norm * max_cmd for a normalised axis of magnitude 0, 0.5 or 1, where the
\* product is exact; max_cmd is positive
FloatMul(norm, m) ==
    Signed(norm.neg,
           CASE norm.mag = Zero -> Zero
             [] norm.mag = One -> m
             [] norm.mag = FloatHalf(One) -> FloatHalf(m))

---------------------------------------------------------------------------
(* Commander: max_cmd and the command vector *)

\* Commander.__init__: max_cmd = 0.5, _ultimate_max = 1.5, _ultimate_min = 0.1
InitialMaxCmd == <<2 ^ 28, 0>>
_ultimate_max == <<3 * 2 ^ 28, 0>>
_ultimate_min == Tenth

\* CommandDisplay.__init__ of keyboard.py, in ticks of 50 ms: keys are
\* released after 0.25 s without a repeat; max_cmd is adjusted when at least
\* 0.18 s, which is 4 whole ticks, have passed since the last adjustment
_repeat_release_s == 5
_adjust_interval_s == 4

\* an empty dict of key codes
NoKeys == [code \in {} |-> 0]

\* variant of increase_max_cmd: the clamp sits one step too high
increase_max_cmd_clamped_late(m) ==
    FloatMin(FloatAdd(m, Tenth), FloatAdd(_ultimate_max, Tenth))

increase_max_cmd(m) == FloatMin(FloatAdd(m, Tenth), _ultimate_max)

decrease_max_cmd(m) == FloatMax(FloatSub(m, Tenth), _ultimate_min)

\* the fields of ControlVector and of ControlVector16, in the order of to_msg
Fields == <<"XVel", "YVel", "YawRate">>
Fields16 ==
    <<"XVel", "YVel", "YawRate", "BaseHeight", "BaseRoll", "BasePitch",
      "RShoulderPitch", "RShoulderRoll", "RElbowPitch", "RElbowRoll",
      "RWristPitch", "LShoulderPitch", "LShoulderRoll", "LElbowPitch",
      "LElbowRoll", "LWristPitch">>

Range(s) == {s[i] : i \in DOMAIN s}

ControlVector(XVel, YVel, YawRate) ==
    [XVel |-> XVel, YVel |-> YVel, YawRate |-> YawRate]

\* ControlVector16(): every field at its default 0.0
ControlVector16 == [f \in Range(Fields16) |-> PosZero]

\* to_msg: the JSON object of the fields, as its members in order
to_msg(c) ==
    LET fields == IF DOMAIN c = Range(Fields) THEN Fields ELSE Fields16
    IN  [i \in DOMAIN fields |-> <<fields[i], c[fields[i]]>>]

---------------------------------------------------------------------------
(* Controller: the gamepad state *)

Buttons(LB, UP, DOWN) == [LB |-> LB, UP |-> UP, DOWN |-> DOWN]

\* _deadband(value, .1)
_deadband(value) == IF FloatLess(Tenth, value.mag) THEN value ELSE PosZero

\* _clean_joystick: value / 32768 through the deadband; value is an int16
_clean_joystick(value) ==
    _deadband(Signed(value < 0,
                     <<(IF value < 0 THEN -value ELSE value) * 2 ^ 14, 0>>))

\* Controller.__init__
ControllerInit ==
    [btns |-> Buttons("RELEASED", "RELEASED", "RELEASED"),
     prev_btns |-> Buttons("RELEASED", "RELEASED", "RELEASED"),
     JOYSTICK_LEFT_X |-> PosZero,
     JOYSTICK_LEFT_Y |-> PosZero,
     JOYSTICK_RIGHT_X |-> PosZero]

rising_edge(c, button) ==
    c.btns[button] = "PRESSED" /\ c.prev_btns[button] = "RELEASED"

Event(code, state) == [code |-> code, state |-> state]

\* one event of Controller.update
ApplyEvent(c, event) ==
    CASE event.code = "ABS_Y" ->
           [c EXCEPT !.JOYSTICK_LEFT_Y = _clean_joystick(event.state)]
      [] event.code = "ABS_X" ->
           [c EXCEPT !.JOYSTICK_LEFT_X = _clean_joystick(event.state)]
      [] event.code = "ABS_RX" ->
           [c EXCEPT !.JOYSTICK_RIGHT_X = _clean_joystick(event.state)]
      [] event.code = "BTN_TL" ->
           [c EXCEPT !.btns.LB =
                IF event.state # 0 THEN "PRESSED" ELSE "RELEASED"]
      [] event.code = "ABS_HAT0Y" ->
           [c EXCEPT !.btns.UP =
                IF event.state < 0 THEN "PRESSED" ELSE "RELEASED",
                     !.btns.DOWN =
                IF event.state > 0 THEN "PRESSED" ELSE "RELEASED"]
      [] OTHER -> c

RECURSIVE ApplyEvents(_, _)
ApplyEvents(c, events) ==
    IF events = <<>> THEN c
    ELSE ApplyEvents(ApplyEvent(c, Head(events)), Tail(events))

\* Controller.update: the buttons are saved, then the events get_gamepad
\* returned are applied in order
ControllerUpdate(c, events) ==
    ApplyEvents([c EXCEPT !.prev_btns = c.btns], events)

---------------------------------------------------------------------------
(* Initial state: PowerBoard.__init__ *)

\* no input: the session operations take theirs from the transport
NoArgs == [kind |-> "none", v |-> <<>>]

Constructed ==
    /\ bus = "none"
    /\ pc = "idle"
    /\ clock = 0
    /\ start_time = 0
    /\ status_data = None
    /\ power_data = None
    /\ latest_status = None
    /\ latest_power = None
    /\ log = <<>>
    /\ sent = <<>>
    /\ rows = <<>>
    /\ ret = [op |-> "none", val |-> None]

\* no tele-op program runs: its objects are as their constructors leave them
Idle ==
    /\ ctrl = ControllerInit
    /\ max_cmd = InitialMaxCmd
    /\ cmds = ControlVector(PosZero, PosZero, PosZero)
    /\ updated = "none"
    /\ datagrams = <<>>
    /\ tele_pc = [main |-> "idle", input |-> "idle"]
    /\ _pressed_codes = {}
    /\ _key_last_seen = NoKeys
    /\ _last_adjust_time = -_adjust_interval_s
    /\ reads = 0
    /\ last_input = None

Init == Constructed /\ Idle /\ args = NoArgs

Return(op, val) == [op |-> op, val |-> val]

\* the locals of get_status and of stream_auto_report exist only during a call
\* and until the next call replaces the histories kept about it
DropQueryLocals ==
    clock' = 0 /\ start_time' = 0 /\ status_data' = None /\ power_data' = None

DropStreamLocals ==
    latest_status' = None /\ latest_power' = None

---------------------------------------------------------------------------
(* connect / disconnect *)

\* variant of connect: the bus is assigned even when opening it raised
ConnectFailureOpens ==
    /\ pc = "idle"
    /\ \E ok \in BOOLEAN :
        /\ bus' = "open"
        /\ ret' = Return("connect", Some(ok))
    /\ log' = <<>> /\ sent' = <<>> /\ rows' = <<>>
    /\ DropQueryLocals
    /\ DropStreamLocals
    /\ UNCHANGED <<args, teleop, pc>>

\* connect: can.interface.Bus(...) succeeds or raises
Connect ==
    /\ pc = "idle"
    /\ \E ok \in BOOLEAN :
        /\ bus' = IF ok THEN "open" ELSE bus
        /\ ret' = Return("connect", Some(ok))
    /\ log' = <<>> /\ sent' = <<>> /\ rows' = <<>>
    /\ DropQueryLocals
    /\ DropStreamLocals
    /\ UNCHANGED <<args, teleop, pc>>

\* disconnect: shuts the bus down if there is one
Disconnect ==
    /\ pc = "idle"
    /\ bus' = "none"
    /\ ret' = Return("disconnect", None)
    /\ log' = <<>> /\ sent' = <<>> /\ rows' = <<>>
    /\ DropQueryLocals
    /\ DropStreamLocals
    /\ UNCHANGED <<args, teleop, pc>>

---------------------------------------------------------------------------
(* get_status *)

\* variant of the loop condition: the start time is not subtracted
WithinTimeoutAbsolute(now, start) == now < TIMEOUT

\* the loop condition: time.time() - start_time < self.TIMEOUT
WithinTimeout(now, start) == now - start < TIMEOUT

\* variants of the return condition: waiting for both halves, returning on either
ReturnsStatusNeedsBoth(sd, pd) == sd # None /\ pd # None
ReturnsStatusOnEither(sd, pd) == sd # None \/ pd # None

\* "if status_data is not None: return (status_data, power_data)"
ReturnsStatus(sd, pd) == sd # None

\* variant of the loop body: a payload that is too short clears power_data
GetStatusHandleShortDropsPower(m, sd, pd) ==
    LET skip == [status_data |-> sd, power_data |-> pd, returns |-> FALSE]
        drop == [status_data |-> sd, power_data |-> None, returns |-> FALSE]
    IN  IF ~m.is_extended_id THEN skip
        ELSE IF TargetAddr(m) # POWER_BOARD_ID THEN skip
        ELSE IF MsgType(m) = STATUS THEN
            IF ParseRaises(m.data) THEN drop
            ELSE LET s == Some(_parse_status_frame(m.data))
                 IN  [status_data |-> s, power_data |-> pd,
                      returns |-> ReturnsStatus(s, pd)]
        ELSE IF MsgType(m) = POWER_DATA THEN
            IF ParseRaises(m.data) THEN drop
            ELSE LET p == Some(_parse_power_data_frame(m.data))
                 IN  [status_data |-> sd, power_data |-> p,
                      returns |-> ReturnsStatus(sd, p)]
        ELSE [status_data |-> sd, power_data |-> pd,
              returns |-> ReturnsStatus(sd, pd)]

\* the body of the wait loop for a delivered message m, from the locals sd, pd:
\* the new locals and whether the call returns (status_data, power_data)
GetStatusHandle(m, sd, pd) ==
    LET skip == [status_data |-> sd, power_data |-> pd, returns |-> FALSE]
    IN  IF ~m.is_extended_id THEN skip
        ELSE IF TargetAddr(m) # POWER_BOARD_ID THEN skip
        ELSE IF MsgType(m) = STATUS THEN
            IF ParseRaises(m.data) THEN skip
            ELSE LET s == Some(_parse_status_frame(m.data))
                 IN  [status_data |-> s, power_data |-> pd,
                      returns |-> ReturnsStatus(s, pd)]
        ELSE IF MsgType(m) = POWER_DATA THEN
            IF ParseRaises(m.data) THEN skip
            ELSE LET p == Some(_parse_power_data_frame(m.data))
                 IN  [status_data |-> sd, power_data |-> p,
                      returns |-> ReturnsStatus(sd, p)]
        ELSE [status_data |-> sd, power_data |-> pd,
              returns |-> ReturnsStatus(sd, pd)]

\* variant of get_status: the result of send_query_frame is not looked at
GetStatusCallIgnoresSendFailure ==
    /\ pc = "idle"
    /\ log' = <<>> /\ rows' = <<>>
    /\ DropStreamLocals
    /\ IF bus = "none"
       THEN /\ sent' = <<>>
            /\ ret' = Return("get_status", None)
            /\ DropQueryLocals
            /\ UNCHANGED <<args, teleop, pc>>
       ELSE \E ok \in BOOLEAN :
            /\ sent' = <<SendAttempt(QueryMessage, ok)>>
            /\ status_data' = None
            /\ power_data' = None
            /\ \E t \in 0 .. MaxStart :
                clock' = t /\ start_time' = t
            /\ pc' = "gs_loop"
            /\ ret' = Return("none", None)
    /\ UNCHANGED <<args, teleop, bus>>

\* get_status up to the first evaluation of the loop condition
GetStatusCall ==
    /\ pc = "idle"
    /\ log' = <<>> /\ rows' = <<>>
    /\ DropStreamLocals
    /\ IF bus = "none"
       THEN /\ sent' = <<>>
            /\ ret' = Return("get_status", None)
            /\ DropQueryLocals
            /\ UNCHANGED <<args, teleop, pc>>
       ELSE \E ok \in BOOLEAN :
            /\ sent' = <<SendAttempt(QueryMessage, ok)>>
            /\ IF ~ok
               THEN /\ ret' = Return("get_status", None)
                    /\ DropQueryLocals
                    /\ UNCHANGED <<args, teleop, pc>>
               ELSE /\ status_data' = None
                    /\ power_data' = None
                    /\ \E t \in 0 .. MaxStart :
                        clock' = t /\ start_time' = t
                    /\ pc' = "gs_loop"
                    /\ ret' = Return("none", None)
    /\ UNCHANGED <<args, teleop, bus>>

\* one iteration: bus.recv(timeout=0.1) returns None after the full wait
GetStatusRecvNone ==
    /\ pc = "gs_loop"
    /\ WithinTimeout(clock, start_time)
    /\ clock' = clock + RECV_TIMEOUT
    /\ UNCHANGED <<args, teleop, bus, pc, start_time, status_data, power_data,
                   latest_status, latest_power, log, sent, rows, ret>>

\* one iteration: bus.recv delivers a message within the wait
GetStatusRecvMsg ==
    /\ pc = "gs_loop"
    /\ WithinTimeout(clock, start_time)
    /\ Len(log) < MaxRecv
    /\ \E m \in Messages, d \in RecvDelays :
        LET h == GetStatusHandle(m, status_data, power_data)
        IN  /\ clock' = clock + d
            /\ log' = Append(log, Delivered(m))
            /\ status_data' = h.status_data
            /\ power_data' = h.power_data
            /\ IF h.returns
               THEN /\ pc' = "idle"
                    /\ ret' = Return("get_status",
                                     Some([status |-> h.status_data,
                                           power |-> h.power_data]))
               ELSE UNCHANGED <<pc, ret>>
    /\ UNCHANGED <<args, teleop, bus, start_time, latest_status, latest_power, sent, rows>>

\* variant of the handler: a receive error ends the call with None
GetStatusRecvErrorAborts ==
    /\ pc = "gs_loop"
    /\ WithinTimeout(clock, start_time)
    /\ Len(log) < MaxRecv
    /\ \E d \in RecvDelays : clock' = clock + d
    /\ log' = Append(log, RecvRaised)
    /\ pc' = "idle"
    /\ ret' = Return("get_status", None)
    /\ UNCHANGED <<args, teleop, bus, start_time, status_data, power_data,
                   latest_status, latest_power, sent, rows>>

\* one iteration: bus.recv raises; "except Exception: ... continue"
GetStatusRecvError ==
    /\ pc = "gs_loop"
    /\ WithinTimeout(clock, start_time)
    /\ Len(log) < MaxRecv
    /\ \E d \in RecvDelays : clock' = clock + d
    /\ log' = Append(log, RecvRaised)
    /\ UNCHANGED <<args, teleop, bus, pc, start_time, status_data, power_data,
                   latest_status, latest_power, sent, rows, ret>>

\* the loop condition fails: "return None"
GetStatusTimeout ==
    /\ pc = "gs_loop"
    /\ ~WithinTimeout(clock, start_time)
    /\ pc' = "idle"
    /\ ret' = Return("get_status", None)
    /\ UNCHANGED <<args, teleop, bus, clock, start_time, status_data, power_data,
                   latest_status, latest_power, log, sent, rows>>

GetStatusStep ==
    GetStatusRecvNone \/ GetStatusRecvMsg \/ GetStatusRecvError \/ GetStatusTimeout

---------------------------------------------------------------------------
(* stream_auto_report *)

\* variant of the row: the power columns always print "--"
RowWithoutPower(ls, lp) == [status |-> ls, power |-> None]

\* the printed data row: the status columns and the power columns ("--" when None)
Row(ls, lp) == [status |-> ls, power |-> lp]

\* variant of the loop body: the frame format is not looked at
StreamHandleAnyFormat(m, ls, lp) ==
    LET skip == [latest_status |-> ls, latest_power |-> lp, reaches_print |-> FALSE]
    IN  IF TargetAddr(m) # POWER_BOARD_ID THEN skip
        ELSE IF MsgType(m) = STATUS THEN
            IF ParseRaises(m.data) THEN skip
            ELSE [latest_status |-> Some(_parse_status_frame(m.data)),
                  latest_power |-> lp, reaches_print |-> TRUE]
        ELSE IF MsgType(m) = POWER_DATA THEN
            IF ParseRaises(m.data) THEN skip
            ELSE [latest_status |-> ls,
                  latest_power |-> Some(_parse_power_data_frame(m.data)),
                  reaches_print |-> TRUE]
        ELSE [latest_status |-> ls, latest_power |-> lp, reaches_print |-> TRUE]

\* variant of the loop body: a new status forgets the power reading
StreamHandleStatusDropsPower(m, ls, lp) ==
    LET skip == [latest_status |-> ls, latest_power |-> lp, reaches_print |-> FALSE]
    IN  IF ~m.is_extended_id THEN skip
        ELSE IF TargetAddr(m) # POWER_BOARD_ID THEN skip
        ELSE IF MsgType(m) = STATUS THEN
            IF ParseRaises(m.data) THEN skip
            ELSE [latest_status |-> Some(_parse_status_frame(m.data)),
                  latest_power |-> None, reaches_print |-> TRUE]
        ELSE IF MsgType(m) = POWER_DATA THEN
            IF ParseRaises(m.data) THEN skip
            ELSE [latest_status |-> ls,
                  latest_power |-> Some(_parse_power_data_frame(m.data)),
                  reaches_print |-> TRUE]
        ELSE [latest_status |-> ls, latest_power |-> lp, reaches_print |-> TRUE]

\* variant of the loop body: a parse error is caught around the parse alone, so
\* control still reaches the print
StreamHandlePrintsAfterError(m, ls, lp) ==
    LET skip == [latest_status |-> ls, latest_power |-> lp, reaches_print |-> FALSE]
        go == [latest_status |-> ls, latest_power |-> lp, reaches_print |-> TRUE]
    IN  IF ~m.is_extended_id THEN skip
        ELSE IF TargetAddr(m) # POWER_BOARD_ID THEN skip
        ELSE IF MsgType(m) = STATUS THEN
            IF ParseRaises(m.data) THEN go
            ELSE [latest_status |-> Some(_parse_status_frame(m.data)),
                  latest_power |-> lp, reaches_print |-> TRUE]
        ELSE IF MsgType(m) = POWER_DATA THEN
            IF ParseRaises(m.data) THEN go
            ELSE [latest_status |-> ls,
                  latest_power |-> Some(_parse_power_data_frame(m.data)),
                  reaches_print |-> TRUE]
        ELSE go

\* the loop body for a delivered message m up to the print, from the locals
\* ls, lp: the new locals and whether control reaches "if latest_status is not None"
StreamHandle(m, ls, lp) ==
    LET skip == [latest_status |-> ls, latest_power |-> lp, reaches_print |-> FALSE]
    IN  IF ~m.is_extended_id THEN skip
        ELSE IF TargetAddr(m) # POWER_BOARD_ID THEN skip
        ELSE IF MsgType(m) = STATUS THEN
            IF ParseRaises(m.data) THEN skip
            ELSE [latest_status |-> Some(_parse_status_frame(m.data)),
                  latest_power |-> lp, reaches_print |-> TRUE]
        ELSE IF MsgType(m) = POWER_DATA THEN
            IF ParseRaises(m.data) THEN skip
            ELSE [latest_status |-> ls,
                  latest_power |-> Some(_parse_power_data_frame(m.data)),
                  reaches_print |-> TRUE]
        ELSE [latest_status |-> ls, latest_power |-> lp, reaches_print |-> TRUE]

\* variant of the print guard: a row needs both halves
PrintsRowNeedsBoth(ls, lp) == ls # None /\ lp # None

\* "if latest_status is not None:" guarding the print of a row
PrintsRow(ls, lp) == ls # None

\* stream_auto_report up to the first bus.recv
StreamCall ==
    /\ pc = "idle"
    /\ log' = <<>> /\ rows' = <<>>
    /\ DropQueryLocals
    /\ latest_status' = None
    /\ latest_power' = None
    /\ IF bus = "none"
       THEN /\ sent' = <<>>
            /\ ret' = Return("stream", None)
            /\ UNCHANGED <<args, teleop, pc>>
       ELSE \E ok \in BOOLEAN :
            /\ sent' = <<SendAttempt(AutoReportMessage(TRUE), ok)>>
            /\ IF ~ok
               THEN /\ ret' = Return("stream", None)
                    /\ UNCHANGED <<args, teleop, pc>>
               ELSE /\ pc' = "st_loop"
                    /\ ret' = Return("none", None)
    /\ UNCHANGED <<args, teleop, bus>>

\* bus.recv(timeout=0.5) returns None: continue
StreamRecvNone ==
    /\ pc = "st_loop"
    /\ UNCHANGED vars

\* bus.recv delivers a message; the body runs up to the print
StreamRecvMsg ==
    /\ pc = "st_loop"
    /\ Len(log) < MaxRecv
    /\ \E m \in Messages :
        LET h == StreamHandle(m, latest_status, latest_power)
        IN  /\ log' = Append(log, Delivered(m))
            /\ latest_status' = h.latest_status
            /\ latest_power' = h.latest_power
            /\ pc' = IF h.reaches_print THEN "st_print" ELSE "st_loop"
    /\ UNCHANGED <<args, teleop, bus, clock, start_time, status_data, power_data, sent, rows, ret>>

\* variant of the stream: a receive error ends it
StreamRecvErrorReturns ==
    /\ pc = "st_loop"
    /\ Len(log) < MaxRecv
    /\ log' = Append(log, RecvRaised)
    /\ pc' = "idle"
    /\ ret' = Return("stream", None)
    /\ UNCHANGED <<args, teleop, bus, clock, start_time, status_data, power_data,
                   latest_status, latest_power, sent, rows>>

\* bus.recv raises; "except Exception: ... continue"
StreamRecvError ==
    /\ pc = "st_loop"
    /\ Len(log) < MaxRecv
    /\ log' = Append(log, RecvRaised)
    /\ UNCHANGED <<args, teleop, bus, pc, clock, start_time, status_data, power_data,
                   latest_status, latest_power, sent, rows, ret>>

\* the end of the loop body: print one row if there is a status
StreamPrint ==
    /\ pc = "st_print"
    /\ rows' = IF PrintsRow(latest_status, latest_power)
               THEN Append(rows, Row(latest_status, latest_power))
               ELSE rows
    /\ pc' = "st_loop"
    /\ UNCHANGED <<args, teleop, bus, clock, start_time, status_data, power_data,
                   latest_status, latest_power, log, sent, ret>>

\* KeyboardInterrupt raised inside the loop reaches "except KeyboardInterrupt"
StreamInterrupt ==
    /\ pc \in {"st_loop", "st_print"}
    /\ pc' = "st_cancel"
    /\ UNCHANGED <<args, teleop, bus, clock, start_time, status_data, power_data,
                   latest_status, latest_power, log, sent, rows, ret>>

\* the handler: enable_auto_report(False), then the function returns
StreamDisable ==
    /\ pc = "st_cancel"
    /\ \E ok \in BOOLEAN :
        sent' = Append(sent, SendAttempt(AutoReportMessage(FALSE), ok))
    /\ pc' = "idle"
    /\ ret' = Return("stream", None)
    /\ UNCHANGED <<args, teleop, bus, clock, start_time, status_data, power_data,
                   latest_status, latest_power, log, rows>>

---------------------------------------------------------------------------
(* The codec functions and the one-shot commands, applied to a given input *)

\* the members of PowerBoardMessageType
MessageTypes == {CONTROL, QUERY, STATUS, POWER_DATA}

\* every PowerBoardControl
Controls ==
    [fan : BOOLEAN, precharge_voltage : BOOLEAN, output_to_motor : BOOLEAN,
     main_control : BOOLEAN, restart : BOOLEAN, clear_faults : BOOLEAN,
     auto_report : BOOLEAN, reserved : BOOLEAN]

\* every argument list of control_outputs
OutputArgs ==
    [fan : BOOLEAN, precharge : BOOLEAN, motor_output : BOOLEAN,
     main_control : BOOLEAN]

\* payloads of every length up to MaxPayloadLen over a sample of byte values:
\* the smallest, the largest and one in between
ByteSamples == {0, 57, 255}
Payloads ==
    UNION {[1 .. n -> ByteSamples] : n \in 0 .. MaxPayloadLen}
        \cup {PayloadA, PayloadB}

\* fault words: every low byte under a sample of high bytes
HighByteSamples == {0, 1, 128, 255}
FaultWords == {lo + 256 * hi : lo \in 0 .. 255, hi \in HighByteSamples}

Inputs ==
    {NoArgs}
        \cup {[kind |-> "fault_status", v |-> f] : f \in FaultWords}
        \cup {[kind |-> "message_type", v |-> t] : t \in MessageTypes}
        \cup {[kind |-> "control", v |-> c] : c \in Controls}
        \cup {[kind |-> "outputs", v |-> o] : o \in OutputArgs}
        \cup {[kind |-> "data", v |-> d] : d \in Payloads}

\* a constructed session and one input
ApiInit == Constructed /\ Idle /\ args \in Inputs

\* the outcome of a call that raised ValueError
ValueError == [raised |-> "ValueError"]

\* a call that touches nothing of the session
PureCall(op, val) ==
    /\ pc = "idle"
    /\ ret' = Return(op, val)
    /\ UNCHANGED <<args, teleop, bus, pc, clock, start_time, status_data, power_data,
                   latest_status, latest_power, log, sent, rows>>

CreateCanIdCall ==
    /\ args.kind = "message_type"
    /\ PureCall("_create_can_id", Some(_create_can_id(args.v)))

ParseStatusFrameCall ==
    /\ args.kind = "data"
    /\ PureCall("_parse_status_frame",
                Some(IF ParseRaises(args.v) THEN ValueError
                     ELSE _parse_status_frame(args.v)))

ParsePowerDataFrameCall ==
    /\ args.kind = "data"
    /\ PureCall("_parse_power_data_frame",
                Some(IF ParseRaises(args.v) THEN ValueError
                     ELSE _parse_power_data_frame(args.v)))

GetFaultsCall ==
    /\ args.kind = "fault_status"
    /\ PureCall("get_faults", Some(get_faults(args.v)))

\* variant of send_control_frame: self.bus is not tested before the send
SendControlUnchecked(op, control) ==
    /\ pc = "idle"
    /\ \E ok \in BOOLEAN :
        /\ sent' = <<SendAttempt(ControlMessage(control), ok)>>
        /\ ret' = Return(op, Some(ok))
    /\ log' = <<>> /\ rows' = <<>>
    /\ DropQueryLocals
    /\ DropStreamLocals
    /\ UNCHANGED <<args, teleop, bus, pc>>

\* variant of send_control_frame: a failed send drops the bus
SendControlDropsBus(op, control) ==
    /\ pc = "idle"
    /\ IF bus = "none"
       THEN /\ sent' = <<>>
            /\ ret' = Return(op, Some(FALSE))
            /\ UNCHANGED bus
       ELSE \E ok \in BOOLEAN :
            /\ sent' = <<SendAttempt(ControlMessage(control), ok)>>
            /\ ret' = Return(op, Some(ok))
            /\ bus' = IF ok THEN bus ELSE "none"
    /\ log' = <<>> /\ rows' = <<>>
    /\ DropQueryLocals
    /\ DropStreamLocals
    /\ UNCHANGED <<args, teleop, pc>>

\* send_control_frame(control), called as such or by the command op: False with
\* no bus; otherwise one bus.send, True if it returned and False if it raised
SendControl(op, control) ==
    /\ pc = "idle"
    /\ IF bus = "none"
       THEN /\ sent' = <<>>
            /\ ret' = Return(op, Some(FALSE))
       ELSE \E ok \in BOOLEAN :
            /\ sent' = <<SendAttempt(ControlMessage(control), ok)>>
            /\ ret' = Return(op, Some(ok))
    /\ log' = <<>> /\ rows' = <<>>
    /\ DropQueryLocals
    /\ DropStreamLocals
    /\ UNCHANGED <<args, teleop, bus, pc>>

SendControlFrameCall ==
    /\ args.kind = "control"
    /\ SendControl("send_control_frame", args.v)

\* send_query_frame as a call of its own
SendQueryFrameCall ==
    /\ args.kind = "none"
    /\ pc = "idle"
    /\ IF bus = "none"
       THEN /\ sent' = <<>>
            /\ ret' = Return("send_query_frame", Some(FALSE))
       ELSE \E ok \in BOOLEAN :
            /\ sent' = <<SendAttempt(QueryMessage, ok)>>
            /\ ret' = Return("send_query_frame", Some(ok))
    /\ log' = <<>> /\ rows' = <<>>
    /\ DropQueryLocals
    /\ DropStreamLocals
    /\ UNCHANGED <<args, teleop, bus, pc>>

\* PowerBoardControl(fan=fan, precharge_voltage=precharge,
\*                   output_to_motor=motor_output, main_control=main_control)
OutputsControl(a) ==
    [PowerBoardControl EXCEPT !.fan = a.fan,
                              !.precharge_voltage = a.precharge,
                              !.output_to_motor = a.motor_output,
                              !.main_control = a.main_control]

ControlOutputsCall ==
    /\ args.kind = "outputs"
    /\ SendControl("control_outputs", OutputsControl(args.v))

ClearFaultsCall ==
    /\ args.kind = "none"
    /\ SendControl("clear_faults", [PowerBoardControl EXCEPT !.clear_faults = TRUE])

\* variant of restart: the control it builds has no flag set
RestartCallNoFlag ==
    /\ args.kind = "none"
    /\ SendControl("restart", PowerBoardControl)

RestartCall ==
    /\ args.kind = "none"
    /\ SendControl("restart", [PowerBoardControl EXCEPT !.restart = TRUE])

---------------------------------------------------------------------------
(* One-shot commands called from a second worker while the stream loops *)

\* send_control_frame(control) run by the second worker as the command op while
\* the first is inside the loop of stream_auto_report: one more bus.send on the
\* shared bus; the stream's locals are not touched
WorkerSendControl(op, control) ==
    /\ pc \in {"st_loop", "st_print"}
    /\ Len(sent) < MaxSent
    /\ \E ok \in BOOLEAN :
        /\ sent' = Append(sent, SendAttempt(ControlMessage(control), ok))
        /\ ret' = Return(op, Some(ok))
    /\ UNCHANGED <<args, teleop, bus, pc, clock, start_time, status_data, power_data,
                   latest_status, latest_power, log, rows>>

\* the commands pass "if not self.bus": a stream in its loop has the bus open
WorkerControlOutputs ==
    /\ bus = "open"
    /\ \E a \in OutputArgs :
        WorkerSendControl("control_outputs", OutputsControl(a))

WorkerClearFaults ==
    /\ bus = "open"
    /\ WorkerSendControl("clear_faults",
                         [PowerBoardControl EXCEPT !.clear_faults = TRUE])

WorkerRestart ==
    /\ bus = "open"
    /\ WorkerSendControl("restart", [PowerBoardControl EXCEPT !.restart = TRUE])

---------------------------------------------------------------------------
(* get_status on a bus whose receive queue already holds frames *)

\* frames the board may have emitted (by auto-report, say) between the opening
\* of the bus and the Query send: they wait in the socket's receive queue
QueuedFrames ==
    { Message(RxId(POWER_BOARD_ID, STATUS), PayloadA, TRUE),
      Message(RxId(POWER_BOARD_ID, STATUS), PayloadB, TRUE),
      Message(RxId(POWER_BOARD_ID, POWER_DATA), PayloadB, TRUE),
      Message(RxId(85, STATUS), PayloadA, TRUE) }

Queues == UNION {[1 .. n -> QueuedFrames] : n \in 0 .. MaxQueue}

QueueInit == Constructed /\ Idle /\ args \in {[kind |-> "queue", v |-> q] : q \in Queues}

\* the queue still holds frames for this call: its i-th receive gets the i-th
StillQueued == Len(log) < Len(args.v)

QueueConnect ==
    /\ args.kind = "queue"
    /\ ret.op = "none"
    /\ Connect

\* get_status: between the Query send and the first bus.recv nothing empties
\* the queue
QueueGetStatus ==
    /\ pc = "idle"
    /\ ret = [op |-> "connect", val |-> <<TRUE>>]
    /\ GetStatusCall

\* variant of the wait: a frame that was queued before the Query is discarded
GetStatusRecvQueuedDiscarded ==
    /\ pc = "gs_loop"
    /\ WithinTimeout(clock, start_time)
    /\ Len(log) < MaxRecv
    /\ StillQueued
    /\ log' = Append(log, Delivered(args.v[Len(log) + 1]))
    /\ UNCHANGED <<args, teleop, bus, pc, clock, start_time, status_data, power_data,
                   latest_status, latest_power, sent, rows, ret>>

\* one iteration: bus.recv returns at once with the oldest queued frame
GetStatusRecvQueued ==
    /\ pc = "gs_loop"
    /\ WithinTimeout(clock, start_time)
    /\ Len(log) < MaxRecv
    /\ StillQueued
    /\ LET m == args.v[Len(log) + 1]
           h == GetStatusHandle(m, status_data, power_data)
       IN  /\ log' = Append(log, Delivered(m))
           /\ status_data' = h.status_data
           /\ power_data' = h.power_data
           /\ IF h.returns
              THEN /\ pc' = "idle"
                   /\ ret' = Return("get_status",
                                    Some([status |-> h.status_data,
                                          power |-> h.power_data]))
              ELSE UNCHANGED <<pc, ret>>
    /\ UNCHANGED <<args, teleop, bus, clock, start_time, latest_status, latest_power,
                   sent, rows>>

\* once the queue is empty bus.recv waits for what the board sends next
QueueRecvFresh ==
    /\ ~StillQueued
    /\ GetStatusRecvMsg

QueueRecvNone ==
    /\ ~StillQueued
    /\ GetStatusRecvNone

QueueDisconnect ==
    /\ pc = "idle"
    /\ ret.op = "get_status"
    /\ Disconnect

---------------------------------------------------------------------------
(* The operations called on a session that is not connected *)

OfflineInit ==
    Constructed /\ Idle /\ args \in {NoArgs} \cup {[kind |-> "control", v |-> c] : c \in Controls}

OfflineGetStatus ==
    /\ bus = "none"
    /\ GetStatusCall

OfflineStream ==
    /\ bus = "none"
    /\ StreamCall

---------------------------------------------------------------------------
(* main: one run of the command-line program *)

\* the parsed command line: the action of the mutually exclusive group
\* ("status" when none is given) and the output options, which parser.error
\* admits only with --control-outputs (taken as "--fan --precharge" there)
NoOutputs ==
    [fan |-> FALSE, precharge |-> FALSE, motor_output |-> FALSE,
     main_control |-> FALSE]
MainArgs ==
    {[kind |-> "main", v |-> [action |-> a, outputs |-> NoOutputs]] :
        a \in {"status", "auto_report", "clear_faults", "restart"}}
      \cup {[kind |-> "main",
             v |-> [action |-> "control_outputs",
                    outputs |-> [NoOutputs EXCEPT !.fan = TRUE, !.precharge = TRUE]]]}

MainInit == Constructed /\ Idle /\ args \in MainArgs

ConnectedNow == pc = "idle" /\ ret = [op |-> "connect", val |-> <<TRUE>>]

\* "if not power_board.connect(): ... return 1"
MainConnect ==
    /\ args.kind = "main"
    /\ ret.op = "none"
    /\ Connect

\* "if args.auto_report: power_board.stream_auto_report()"
MainStream ==
    /\ ConnectedNow
    /\ args.v.action = "auto_report"
    /\ StreamCall

MainClearFaults ==
    /\ ConnectedNow
    /\ args.v.action = "clear_faults"
    /\ SendControl("clear_faults", [PowerBoardControl EXCEPT !.clear_faults = TRUE])

MainRestart ==
    /\ ConnectedNow
    /\ args.v.action = "restart"
    /\ SendControl("restart", [PowerBoardControl EXCEPT !.restart = TRUE])

MainControlOutputs ==
    /\ ConnectedNow
    /\ args.v.action = "control_outputs"
    /\ SendControl("control_outputs", OutputsControl(args.v.outputs))

\* variant of main: the status is printed after the stream has returned, too
MainPrintStatusOnceAfterStream ==
    /\ pc = "idle"
    /\ \/ ConnectedNow /\ args.v.action = "status"
       \/ ret.op \in {"clear_faults", "control_outputs"} /\ ret.val = <<TRUE>>
       \/ ret.op = "stream"
    /\ GetStatusCall

\* print_status_once: the default action, and the check that follows a
\* clear_faults or control_outputs command that was sent
MainPrintStatusOnce ==
    /\ pc = "idle"
    /\ \/ ConnectedNow /\ args.v.action = "status"
       \/ ret.op \in {"clear_faults", "control_outputs"} /\ ret.val = <<TRUE>>
    /\ GetStatusCall

\* "finally: power_board.disconnect()", once the chosen action is over
MainDisconnect ==
    /\ pc = "idle"
    /\ \/ ret.op \in {"stream", "get_status", "restart"}
       \/ ret.op \in {"clear_faults", "control_outputs"} /\ ret.val = <<FALSE>>
    /\ Disconnect

---------------------------------------------------------------------------
(* The joystick tele-op programs joystick.py and joystick16.py: the       *)
(* controller thread adjusts max_cmd and reads the gamepad, the main loop *)
(* updates the command vector and sends it                                *)

\* CommandDisplay.__init__ / CommandDisplay16.__init__, and run about to
\* enter its loop with the controller thread started
JoystickInit ==
    /\ Constructed
    /\ args \in {[kind |-> k, v |-> <<>>] : k \in {"joystick", "joystick16"}}
    /\ ctrl = ControllerInit
    /\ max_cmd = InitialMaxCmd
    /\ cmds = IF args.kind = "joystick"
              THEN ControlVector(PosZero, PosZero, PosZero)
              ELSE ControlVector16
    /\ updated = "none"
    /\ datagrams = <<>>
    /\ tele_pc = [main |-> "update", input |-> "edges"]
    /\ _pressed_codes = {}
    /\ _key_last_seen = NoKeys
    /\ _last_adjust_time = -_adjust_interval_s
    /\ reads = 0
    /\ last_input = None

\* what one get_gamepad() call returns: the sticks deflected, the sticks
\* let go (one of them resting inside the deadband), LB, the d-pad, and a
\* button the programs do not use
GamepadEvents ==
    { <<Event("ABS_Y", 16384), Event("ABS_X", -32768), Event("ABS_RX", -32768)>>,
      <<Event("ABS_Y", 0), Event("ABS_X", 2048), Event("ABS_RX", 0)>>,
      <<Event("BTN_TL", 1)>>,
      <<Event("BTN_TL", 0)>>,
      <<Event("ABS_HAT0Y", -1)>>,
      <<Event("ABS_HAT0Y", 0)>>,
      <<Event("ABS_HAT0Y", 1)>>,
      <<Event("BTN_SOUTH", 1)>> }

\* controller_thread: the rising edges of UP and DOWN
ControllerEdges ==
    /\ tele_pc.input = "edges"
    /\ max_cmd' = IF rising_edge(ctrl, "UP") THEN increase_max_cmd(max_cmd)
                  ELSE IF rising_edge(ctrl, "DOWN") THEN decrease_max_cmd(max_cmd)
                  ELSE max_cmd
    /\ tele_pc' = [tele_pc EXCEPT !.input = "update"]
    /\ UNCHANGED <<args, board, keyboard, ctrl, cmds, updated, datagrams>>

\* controller_thread: self.controller.update()
ControllerRead ==
    /\ tele_pc.input = "update"
    /\ \E events \in GamepadEvents : ctrl' = ControllerUpdate(ctrl, events)
    /\ tele_pc' = [tele_pc EXCEPT !.input = "edges"]
    /\ UNCHANGED <<args, board, keyboard, max_cmd, cmds, updated, datagrams>>

\* variant of update_commands_from_controller: the sticks are scaled whether
\* or not LB is held
update_commands_from_controller_ungated(c, m) ==
    ControlVector(FloatMul(FloatNeg(c.JOYSTICK_LEFT_Y), m),
                  FloatMul(FloatNeg(c.JOYSTICK_LEFT_X), m),
                  FloatMul(FloatNeg(c.JOYSTICK_RIGHT_X), m))

\* Commander.update_commands_from_controller: the new command vector
update_commands_from_controller(c, m) ==
    IF c.btns.LB = "PRESSED"
    THEN ControlVector(FloatMul(FloatNeg(c.JOYSTICK_LEFT_Y), m),
                       FloatMul(FloatNeg(c.JOYSTICK_LEFT_X), m),
                       FloatMul(FloatNeg(c.JOYSTICK_RIGHT_X), m))
    ELSE ControlVector(PosZero, PosZero, PosZero)

\* Commander16.update_from_controller: three fields are assigned in place
\* while LB is held, a fresh vector replaces the old one otherwise
update_from_controller(c, m, old) ==
    IF c.btns.LB = "PRESSED"
    THEN [old EXCEPT !.XVel = FloatMul(FloatNeg(c.JOYSTICK_LEFT_Y), m),
                     !.YVel = FloatMul(FloatNeg(c.JOYSTICK_LEFT_X), m),
                     !.YawRate = FloatMul(FloatNeg(c.JOYSTICK_RIGHT_X), m)]
    ELSE ControlVector16

\* main loop of joystick.py: the command update
JoystickUpdate ==
    /\ args.kind = "joystick"
    /\ tele_pc.main = "update"
    /\ cmds' = update_commands_from_controller(ctrl, max_cmd)
    /\ updated' = ctrl.btns.LB
    /\ datagrams' = <<>>
    /\ tele_pc' = [tele_pc EXCEPT !.main = "command"]
    /\ UNCHANGED <<args, board, keyboard, ctrl, max_cmd>>

\* main loop of joystick16.py: the command update
Joystick16Update ==
    /\ args.kind = "joystick16"
    /\ tele_pc.main = "update"
    /\ cmds' = update_from_controller(ctrl, max_cmd, cmds)
    /\ updated' = ctrl.btns.LB
    /\ datagrams' = <<>>
    /\ tele_pc' = [tele_pc EXCEPT !.main = "command"]
    /\ UNCHANGED <<args, board, keyboard, ctrl, max_cmd>>

\* Commander.command: one datagram with the vector
command ==
    /\ args.kind = "joystick"
    /\ tele_pc.main = "command"
    /\ datagrams' = Append(datagrams, to_msg(cmds))
    /\ tele_pc' = [tele_pc EXCEPT !.main = "update"]
    /\ UNCHANGED <<args, board, keyboard, ctrl, max_cmd, cmds, updated>>

\* Commander16.send: one datagram with the vector
send ==
    /\ args.kind = "joystick16"
    /\ tele_pc.main = "command"
    /\ datagrams' = Append(datagrams, to_msg(cmds))
    /\ tele_pc' = [tele_pc EXCEPT !.main = "update"]
    /\ UNCHANGED <<args, board, keyboard, ctrl, max_cmd, cmds, updated>>

---------------------------------------------------------------------------
(* The keyboard tele-op program keyboard.py in its stdin input mode: the  *)
(* stdin thread marks the keys it reads as pressed, releases those it has *)
(* not seen for 0.25 s and adjusts max_cmd; the main loop updates the     *)
(* command vector from the pressed keys, sends it and sleeps 0.05 s      *)

KeyboardInit ==
    /\ Constructed
    /\ args = [kind |-> "keyboard", v |-> <<>>]
    /\ ctrl = ControllerInit
    /\ max_cmd = InitialMaxCmd
    /\ cmds = ControlVector(PosZero, PosZero, PosZero)
    /\ updated = "none"
    /\ datagrams = <<>>
    /\ tele_pc = [main |-> "update", input |-> "select"]
    /\ _pressed_codes = {}
    /\ _key_last_seen = NoKeys
    /\ _last_adjust_time = -_adjust_interval_s
    /\ reads = 0
    /\ last_input = None

\* what one os.read returns, as characters: w, S, arrow up, arrow down,
\* arrow right followed by e, a key without a meaning, and an arrow the read
\* cut short
Chunks ==
    { <<"w">>,
      <<"S">>,
      <<"ESC", "[", "A">>,
      <<"ESC", "[", "B">>,
      <<"ESC", "[", "C", "e">>,
      <<"x">>,
      <<"d", "ESC", "[">> }

\* ch.lower() on the characters of Chunks
Lower(ch) ==
    CASE ch = "S" -> "s"
      [] ch = "A" -> "a"
      [] ch = "B" -> "b"
      [] ch = "C" -> "c"
      [] OTHER -> ch

\* s.find("\x1b["): the index of the first escape prefix at or after i, and
\* 0 when there is none
RECURSIVE Find(_, _)
Find(s, i) ==
    IF i + 1 > Len(s) THEN 0
    ELSE IF s[i] = "ESC" /\ s[i + 1] = "[" THEN i
    ELSE Find(s, i + 1)

\* _process_stdin_buffer, the arrow keys: the codes marked, and what is left
\* of the buffer for the letters
RECURSIVE Arrows(_, _)
Arrows(s, marked) ==
    LET idx == Find(s, 1)
        \* s[:idx] + s[idx + 3:]
        cut == SubSeq(s, 1, idx - 1) \o SubSeq(s, idx + 3, Len(s))
    IN  IF idx = 0 \/ Len(s) < idx + 2 THEN [marked |-> marked, s |-> s]
        ELSE IF s[idx + 2] = "A" THEN Arrows(cut, marked \cup {"KEY_UP"})
        ELSE IF s[idx + 2] = "B" THEN Arrows(cut, marked \cup {"KEY_DOWN"})
        ELSE Arrows(cut, marked)

\* _process_stdin_buffer, the letters
Letters(s) ==
    {"KEY_W" : i \in {j \in DOMAIN s : Lower(s[j]) = "w"}}
    \cup {"KEY_S" : i \in {j \in DOMAIN s : Lower(s[j]) = "s"}}
    \cup {"KEY_A" : i \in {j \in DOMAIN s : Lower(s[j]) = "a"}}
    \cup {"KEY_D" : i \in {j \in DOMAIN s : Lower(s[j]) = "d"}}
    \cup {"KEY_Q" : i \in {j \in DOMAIN s : Lower(s[j]) = "q"}}
    \cup {"KEY_E" : i \in {j \in DOMAIN s : Lower(s[j]) = "e"}}

\* _process_stdin_buffer: the codes passed to _stdin_mark_pressed
_process_stdin_buffer(s) ==
    LET arrows == Arrows(s, {})
    IN  arrows.marked \cup Letters(arrows.s)

\* _stdin_mark_pressed for each code of a set, at time now: _key_last_seen
_stdin_mark_pressed(seen, codes, now) ==
    [code \in DOMAIN seen \cup codes |->
        IF code \in codes THEN now ELSE seen[code]]

\* variant of _stdin_expire_keys: keys are kept for twice the time
ToReleaseLate(seen, now) ==
    {code \in DOMAIN seen : now - seen[code] > 2 * _repeat_release_s}

\* _stdin_expire_keys: the codes to release at time now
ToRelease(seen, now) ==
    {code \in DOMAIN seen : now - seen[code] > _repeat_release_s}

\* _maybe_adjust_speed: the new max_cmd and _last_adjust_time
_maybe_adjust_speed(now, pressed_up, pressed_down) ==
    IF now - _last_adjust_time < _adjust_interval_s
    THEN <<max_cmd, _last_adjust_time>>
    ELSE IF pressed_up THEN <<increase_max_cmd(max_cmd), now>>
    ELSE IF pressed_down THEN <<decrease_max_cmd(max_cmd), now>>
    ELSE <<max_cmd, _last_adjust_time>>

\* one iteration of stdin_thread's loop once select has returned: the codes
\* read are marked, the old keys are released, and max_cmd is adjusted while
\* KEY_UP or else KEY_DOWN is pressed
StdinIteration(codes) ==
    LET seen == _stdin_mark_pressed(_key_last_seen, codes, clock)
        pressed == _pressed_codes \cup codes
        to_release == ToRelease(seen, clock)
        left == pressed \ to_release
        adjusted == IF "KEY_UP" \in left
                    THEN _maybe_adjust_speed(clock, TRUE, FALSE)
                    ELSE IF "KEY_DOWN" \in left
                    THEN _maybe_adjust_speed(clock, FALSE, TRUE)
                    ELSE <<max_cmd, _last_adjust_time>>
    IN  /\ _pressed_codes' = left
        /\ _key_last_seen' = [code \in DOMAIN seen \ to_release |-> seen[code]]
        /\ max_cmd' = adjusted[1]
        /\ _last_adjust_time' = adjusted[2]
        /\ last_input' = IF codes = {} THEN last_input ELSE Some(clock)
        /\ tele_pc' = [tele_pc EXCEPT !.input = "select"]
        /\ UNCHANGED <<args, board, gamepad, cmds, datagrams>>

\* stdin_thread: select found input and os.read returned it
StdinRead ==
    /\ args.kind = "keyboard"
    /\ tele_pc.input \in {"select", "timeout"}
    /\ reads < MaxReads
    /\ reads' = reads + 1
    /\ \E chunk \in Chunks : StdinIteration(_process_stdin_buffer(chunk))

\* stdin_thread: select timed out after its 0.05 s
StdinTimeout ==
    /\ args.kind = "keyboard"
    /\ tele_pc.input = "timeout"
    /\ reads' = reads
    /\ StdinIteration({})

\* KeyboardState.get_normalized_axes
Axis(pressed, plus, minus) ==
    LET x == (IF plus \in pressed THEN 1 ELSE 0) - (IF minus \in pressed THEN 1 ELSE 0)
    IN  Signed(x < 0, IF x = 0 THEN Zero ELSE One)

get_normalized_axes(pressed) ==
    <<Axis(pressed, "KEY_W", "KEY_S"),
      Axis(pressed, "KEY_A", "KEY_D"),
      Axis(pressed, "KEY_Q", "KEY_E")>>

\* Commander.update_commands_from_keyboard: the new command vector
update_commands_from_keyboard(pressed, m) ==
    LET axes == get_normalized_axes(pressed)
    IN  ControlVector(FloatMul(axes[1], m), FloatMul(axes[2], m), FloatMul(axes[3], m))

\* main loop of keyboard.py: the command update
KeyboardUpdate ==
    /\ args.kind = "keyboard"
    /\ tele_pc.main = "update"
    /\ cmds' = update_commands_from_keyboard(_pressed_codes, max_cmd)
    /\ datagrams' = <<>>
    /\ tele_pc' = [tele_pc EXCEPT !.main = "command"]
    /\ UNCHANGED <<args, board, gamepad, keyboard, max_cmd>>

\* main loop of keyboard.py: Commander.command, then the sleep begins
KeyboardCommand ==
    /\ args.kind = "keyboard"
    /\ tele_pc.main = "command"
    /\ datagrams' = Append(datagrams, to_msg(cmds))
    /\ tele_pc' = [tele_pc EXCEPT !.main = "sleep"]
    /\ UNCHANGED <<args, board, gamepad, keyboard, max_cmd, cmds>>

\* 0.05 s pass: the main loop's sleep ends and a select that found no input
\* times out; both threads have run their iteration of this period
Tick ==
    /\ args.kind = "keyboard"
    /\ tele_pc = [main |-> "sleep", input |-> "select"]
    /\ clock < MaxClock
    /\ clock' = clock + 1
    /\ tele_pc' = [main |-> "update", input |-> "timeout"]
    /\ UNCHANGED <<args, gamepad, keyboard, max_cmd, cmds, datagrams, bus, pc, start_time, status_data, power_data,
                   latest_status, latest_power, log, sent, rows, ret>>

---------------------------------------------------------------------------
(* Specifications *)

KeyboardNext ==
    \/ StdinRead
    \/ StdinTimeout
    \/ KeyboardUpdate
    \/ KeyboardCommand
    \/ Tick

KeyboardSpec == KeyboardInit /\ [][KeyboardNext]_vars

JoystickNext ==
    \/ ControllerEdges
    \/ ControllerRead
    \/ JoystickUpdate
    \/ Joystick16Update
    \/ command
    \/ send

JoystickSpec == JoystickInit /\ [][JoystickNext]_vars

MainNext ==
    \/ MainConnect
    \/ MainStream
    \/ MainClearFaults
    \/ MainRestart
    \/ MainControlOutputs
    \/ MainPrintStatusOnce
    \/ MainDisconnect
    \/ GetStatusRecvNone
    \/ GetStatusRecvMsg
    \/ GetStatusRecvError
    \/ GetStatusTimeout
    \/ StreamRecvNone
    \/ StreamRecvMsg
    \/ StreamRecvError
    \/ StreamPrint
    \/ StreamInterrupt
    \/ StreamDisable

MainSpec == MainInit /\ [][MainNext]_vars

QueueNext ==
    \/ QueueConnect
    \/ QueueGetStatus
    \/ GetStatusRecvQueued
    \/ QueueRecvFresh
    \/ QueueRecvNone
    \/ GetStatusTimeout
    \/ QueueDisconnect

QueueSpec == QueueInit /\ [][QueueNext]_vars

OfflineNext ==
    \/ Connect
    \/ Disconnect
    \/ SendControlFrameCall
    \/ SendQueryFrameCall
    \/ OfflineGetStatus
    \/ OfflineStream

OfflineSpec == OfflineInit /\ [][OfflineNext]_vars

WorkerNext ==
    \/ Connect
    \/ StreamCall
    \/ StreamRecvNone
    \/ StreamRecvMsg
    \/ StreamRecvError
    \/ StreamPrint
    \/ StreamInterrupt
    \/ StreamDisable
    \/ WorkerControlOutputs
    \/ WorkerClearFaults
    \/ WorkerRestart

WorkerSpec == Init /\ [][WorkerNext]_vars

ApiNext ==
    \/ Connect
    \/ Disconnect
    \/ CreateCanIdCall
    \/ ParseStatusFrameCall
    \/ ParsePowerDataFrameCall
    \/ GetFaultsCall
    \/ SendControlFrameCall
    \/ SendQueryFrameCall
    \/ ControlOutputsCall
    \/ ClearFaultsCall
    \/ RestartCall

ApiSpec == ApiInit /\ [][ApiNext]_vars

Next ==
    \/ Connect
    \/ Disconnect
    \/ GetStatusCall
    \/ GetStatusRecvNone
    \/ GetStatusRecvMsg
    \/ GetStatusRecvError
    \/ GetStatusTimeout
    \/ StreamCall
    \/ StreamRecvNone
    \/ StreamRecvMsg
    \/ StreamRecvError
    \/ StreamPrint
    \/ StreamInterrupt
    \/ StreamDisable

Spec == Init /\ [][Next]_vars

---------------------------------------------------------------------------
(* Vocabulary of the properties, read off the histories *)

\* the newest entry of a non-empty log
Newest(l) == l[Len(l)]

\* this step recorded one more receive outcome
Received == Len(log') = Len(log) + 1

\* bits 0..7 and bits 8..20 of a logged frame's identifier
IdLowByte(e) == e.msg.arbitration_id.lo % 256
IdTypeCode(e) ==
    (e.msg.arbitration_id.hi * 256 + e.msg.arbitration_id.lo \div 256) % 8192

\* an extended frame addressed to 0xAA
BoardFrame(e) ==
    e.kind = "msg" /\ e.msg.is_extended_id /\ IdLowByte(e) = POWER_BOARD_ID

\* a well-formed Status / PowerData frame addressed to 0xAA
GoodStatus(e) == BoardFrame(e) /\ IdTypeCode(e) = STATUS /\ Len(e.msg.data) >= 8
GoodPower(e) == BoardFrame(e) /\ IdTypeCode(e) = POWER_DATA /\ Len(e.msg.data) >= 8

\* a Status / PowerData frame addressed to 0xAA whose payload is too short
ShortFrame(e) ==
    /\ BoardFrame(e)
    /\ IdTypeCode(e) \in {STATUS, POWER_DATA}
    /\ Len(e.msg.data) < 8

\* a frame whose target address is not 0xAA
ForeignFrame(e) == e.kind = "msg" /\ IdLowByte(e) # POWER_BOARD_ID

\* a frame not addressed to 0xAA, or of a type other than Status and PowerData
UnrecognizedFrame(e) ==
    e.kind = "msg" /\ (IdLowByte(e) # POWER_BOARD_ID
                       \/ IdTypeCode(e) \notin {STATUS, POWER_DATA})

\* the reading of the most recent well-formed Status / PowerData frame of a log
RECURSIVE LastStatus(_)
LastStatus(l) ==
    IF l = <<>> THEN None
    ELSE IF GoodStatus(Newest(l)) THEN Some(_parse_status_frame(Newest(l).msg.data))
    ELSE LastStatus(SubSeq(l, 1, Len(l) - 1))

RECURSIVE LastPower(_)
LastPower(l) ==
    IF l = <<>> THEN None
    ELSE IF GoodPower(Newest(l)) THEN Some(_parse_power_data_frame(Newest(l).msg.data))
    ELSE LastPower(SubSeq(l, 1, Len(l) - 1))

InQuery == pc = "gs_loop"
InStream == pc \in {"st_loop", "st_print", "st_cancel"}
QueryReturned == pc = "idle" /\ ret.op = "get_status"
StreamReturned == pc = "idle" /\ ret.op = "stream"

\* get_status sent its Query frame and entered the wait
QueryWaited == sent # <<>> /\ sent[1].ok

---------------------------------------------------------------------------
(* Claims *)

\* C1: get_status returns in the very step that receives the first well-formed
\* Status frame addressed to 0xAA; the result pairs that Status with the reading
\* of the most recent PowerData frame decoded earlier in the call (None if
\* there was none); no receive happens once the call has returned.
C1_ReturnsOnFirstStatus ==
    [][ /\ InQuery => \A i \in 1 .. Len(log) : ~GoodStatus(log[i])
        /\ (InQuery /\ Received /\ GoodStatus(Newest(log')))
             => /\ pc' = "idle"
                /\ ret' = [op |-> "get_status",
                           val |-> Some([status |-> Some(_parse_status_frame(
                                                            Newest(log').msg.data)),
                                         power |-> LastPower(log)])]
        /\ QueryReturned => ~Received
      ]_vars

\* C1 witness: a call has returned a Status together with a PowerData reading
\* that was decoded before it
C1_Witness ==
    /\ QueryReturned
    /\ ret.val # None
    /\ Len(log) = 3
    /\ GoodPower(log[1]) /\ GoodPower(log[2]) /\ log[1] # log[2]
    /\ ret.val[1].power = Some(_parse_power_data_frame(log[2].msg.data))

\* C2: a get_status wait is never stuck and is over before TIMEOUT plus one
\* per-receive wait has elapsed: once TIMEOUT has elapsed the only step left is
\* the return of None, whatever was received; and a wait that ends without a
\* well-formed Status frame having been delivered returns None, with at least
\* TIMEOUT and at most TIMEOUT plus one per-receive wait elapsed since it began.
C2_TimeoutBounded ==
    /\ InQuery =>
         /\ clock - start_time < TIMEOUT + RECV_TIMEOUT
         /\ ENABLED GetStatusStep
         /\ clock - start_time >= TIMEOUT =>
              /\ ENABLED GetStatusTimeout
              /\ ~ENABLED (GetStatusRecvNone \/ GetStatusRecvMsg \/ GetStatusRecvError)
    /\ (QueryReturned /\ QueryWaited
          /\ (\A i \in 1 .. Len(log) : ~GoodStatus(log[i])))
         => /\ ret.val = None
            /\ clock - start_time >= TIMEOUT
            /\ clock - start_time <= TIMEOUT + RECV_TIMEOUT

\* C2 witness: a wait that saw frames but no Status ended with None after more
\* than TIMEOUT
C2_Witness ==
    /\ QueryReturned /\ QueryWaited
    /\ ret.val = None
    /\ Len(log) = 2
    /\ clock - start_time > TIMEOUT

\* C3: in get_status a received frame whose identifier's low 8 bits are not
\* 0xAA causes no return, leaves status_data and power_data as they were and
\* leaves the start of the deadline as it was.
C3_ForeignFrameIgnored ==
    [][ (InQuery /\ Received /\ ForeignFrame(Newest(log')))
          => /\ pc' = "gs_loop"
             /\ ret' = ret
             /\ status_data' = status_data
             /\ power_data' = power_data
             /\ start_time' = start_time
      ]_vars

\* C3 witness: a wait received a foreign frame after a PowerData frame and
\* later returned a Status with that PowerData reading
C3_Witness ==
    /\ QueryReturned
    /\ ret.val # None
    /\ Len(log) = 3
    /\ GoodPower(log[1])
    /\ ForeignFrame(log[2])
    /\ ret.val[1].power = Some(_parse_power_data_frame(log[1].msg.data))

\* the frames of a log that are extended and addressed to 0xAA
BoardFrames(l) == SelectSeq(l, BoardFrame)

C5_SnapshotIsLastDecoded ==
    InStream => /\ latest_status = LastStatus(log)
                /\ latest_power = LastPower(log)

\* C5 witness: a power reading has survived two later Status frames
C5_Witness ==
    /\ pc = "st_loop"
    /\ Len(log) = 3
    /\ GoodPower(log[1]) /\ GoodStatus(log[2]) /\ GoodStatus(log[3])
    /\ log[2] # log[3]
    /\ latest_power = Some(_parse_power_data_frame(log[1].msg.data))
    /\ latest_status = Some(_parse_status_frame(log[3].msg.data))

AllFlagsClear == <<0, 0, 0, 0, 0, 0, 0, 0>>

\* C7: a stream leaves its receive loop only by being cancelled; once the
\* cancellation is caught, the step that follows sends a Control frame with
\* auto-report (and every other flag) clear as the last frame of the stream
\* and returns, whether or not that send succeeds, with no receive and no row
\* in between.
C7_CancelSendsDisable ==
    [][ /\ (pc \in {"st_loop", "st_print"} /\ pc' \notin {"st_loop", "st_print"})
             => pc' = "st_cancel"
        /\ pc = "st_cancel" =>
             /\ pc' = "idle"
             /\ ret' = [op |-> "stream", val |-> None]
             /\ log' = log
             /\ rows' = rows
             /\ Len(sent') = Len(sent) + 1
             /\ SubSeq(sent', 1, Len(sent)) = sent
             /\ Newest(sent').msg.is_extended_id
             /\ Newest(sent').msg.data = AllFlagsClear
             /\ Newest(sent').msg.arbitration_id.lo % 256 = POWER_BOARD_ID
             /\ (Newest(sent').msg.arbitration_id.hi * 256
                   + Newest(sent').msg.arbitration_id.lo \div 256) % 8192 = CONTROL
      ]_vars

\* C7 witness: a stream that had printed a row was cancelled and returned
\* although its disable send failed
C7_Witness ==
    /\ StreamReturned
    /\ Len(rows) >= 1
    /\ Len(sent) = 2
    /\ sent[1].ok
    /\ ~sent[2].ok
    /\ sent[2].msg.data = AllFlagsClear

\* C8 as claimed: in both receive loops a frame that is not addressed to 0xAA,
\* or is of a type other than Status and PowerData, causes no return, no
\* change of the locals and no printed row.
C8_UnrecognizedIgnored ==
    [][ /\ (InQuery /\ Received /\ UnrecognizedFrame(Newest(log')))
             => /\ pc' = "gs_loop"
                /\ ret' = ret
                /\ status_data' = status_data
                /\ power_data' = power_data
        /\ (pc = "st_loop" /\ Received /\ UnrecognizedFrame(Newest(log')))
             => /\ pc' \in {"st_loop", "st_print"}
                /\ ret' = ret
                /\ latest_status' = latest_status
                /\ latest_power' = latest_power
                /\ rows' = rows
        /\ (pc = "st_print" /\ UnrecognizedFrame(Newest(log)))
             => rows' = rows
      ]_vars

\* C9: in a stream, a Status or PowerData frame addressed to 0xAA with fewer
\* than 8 payload bytes prints no row, leaves latest_status and latest_power
\* unchanged, does not end the stream and leaves it at its next receive.
C9_ShortFrameSkipped ==
    [][ (pc = "st_loop" /\ Received /\ ShortFrame(Newest(log')))
          => /\ pc' = "st_loop"
             /\ ret' = ret
             /\ rows' = rows
             /\ latest_status' = latest_status
             /\ latest_power' = latest_power
      ]_vars

\* C9 witness: a short frame was received between a Status and a PowerData
\* frame, which printed their two rows
C9_Witness ==
    /\ pc = "st_loop"
    /\ Len(log) = 3
    /\ GoodStatus(log[1]) /\ ShortFrame(log[2]) /\ GoodPower(log[3])
    /\ Len(rows) = 2

\* C10: get_status returns a tuple only in the step that decoded a Status
\* frame; a wait in which only PowerData frames arrived returns None,
\* whatever power reading it had decoded.
C10_PowerOnlyReturnsNone ==
    /\ (QueryReturned /\ ret.val # None)
         => /\ log # <<>>
            /\ GoodStatus(Newest(log))
            /\ ret.val[1].status # None
    /\ (QueryReturned /\ QueryWaited /\ log # <<>>
          /\ (\A i \in 1 .. Len(log) : GoodPower(log[i])))
         => ret.val = None

\* C10 witness: a wait that decoded three PowerData frames returned None
C10_Witness ==
    /\ QueryReturned /\ QueryWaited
    /\ Len(log) = 3
    /\ \A i \in 1 .. 3 : GoodPower(log[i])
    /\ power_data # None
    /\ ret.val = None

\* C11 as claimed: when bus.recv raises during get_status the call is aborted:
\* it returns a failure at once and receives no more.
C11_RecvErrorAborts ==
    [][ (InQuery /\ Received /\ Newest(log').kind = "error")
          => /\ pc' = "idle"
             /\ ret' = [op |-> "get_status", val |-> None]
      ]_vars

\* C11 amended: when bus.recv raises during get_status the call does not
\* return: it stays in its wait with status_data, power_data and the start of
\* the deadline unchanged and sends nothing, so it goes on receiving until a
\* Status frame arrives or the timeout expires.
C11_RecvErrorContinues ==
    [][ (InQuery /\ Received /\ Newest(log').kind = "error")
          => /\ pc' = "gs_loop"
             /\ ret' = ret
             /\ status_data' = status_data
             /\ power_data' = power_data
             /\ start_time' = start_time
             /\ sent' = sent
      ]_vars

\* C11 witness: a call returned a Status with the power reading decoded
\* before a receive error
C11_Witness ==
    /\ QueryReturned
    /\ Len(log) = 3
    /\ GoodPower(log[1])
    /\ log[2].kind = "error"
    /\ GoodStatus(log[3])
    /\ ret.val = Some([status |-> Some(_parse_status_frame(log[3].msg.data)),
                       power |-> Some(_parse_power_data_frame(log[1].msg.data))])

\* C13: on a connected session each get_status call makes exactly one send,
\* of a Query frame (extended, target 0xAA, type 0x1002, eight zero bytes);
\* every receive of the call comes after that send succeeded, and neither the
\* wait nor the return adds a send, whatever was or was not received.
C13_OneQueryPerCall ==
    (bus = "open" /\ (InQuery \/ QueryReturned))
        => /\ Len(sent) = 1
           /\ sent[1].msg.is_extended_id
           /\ IdLowByte(sent[1]) = 170
           /\ IdTypeCode(sent[1]) = 4098
           /\ sent[1].msg.data = <<0, 0, 0, 0, 0, 0, 0, 0>>
           /\ (InQuery => sent[1].ok)
           /\ (log # <<>> => sent[1].ok)

\* C13 witness: a call that received a foreign frame, a receive error and then
\* a Status frame has returned with its single Query frame sent
C13_Witness ==
    /\ bus = "open"
    /\ QueryReturned
    /\ Len(log) = 3
    /\ ForeignFrame(log[1])
    /\ log[2].kind = "error"
    /\ GoodStatus(log[3])
    /\ Len(sent) = 1
    /\ IdTypeCode(sent[1]) = 4098

\* C14: a stream on a connected session first sends a Control frame with the
\* bytes [0,0,0,0,0,0,1,0]; every receive comes after that send succeeded, and
\* when the send fails the stream has returned with no receive, no row
\* printed and no second (disable) frame sent.
C14_EnableBeforeReceive ==
    (bus = "open" /\ (InStream \/ StreamReturned))
        => /\ sent # <<>>
           /\ sent[1].msg.is_extended_id
           /\ IdLowByte(sent[1]) = 170
           /\ IdTypeCode(sent[1]) = 4097
           /\ sent[1].msg.data = <<0, 0, 0, 0, 0, 0, 1, 0>>
           /\ (log # <<>> => sent[1].ok)
           /\ (~sent[1].ok => /\ pc = "idle"
                              /\ log = <<>>
                              /\ rows = <<>>
                              /\ Len(sent) = 1)

\* C14 witness: a stream whose enabling send failed has returned
C14_Witness ==
    /\ bus = "open"
    /\ StreamReturned
    /\ sent # <<>>
    /\ ~sent[1].ok

---------------------------------------------------------------------------
(* Claims about the commands and the codec, read under ApiSpec *)

\* the call op has just returned on a connected session
ReturnedOpen(op) == pc = "idle" /\ bus = "open" /\ ret.op = op

\* the outcome of a parser call is the ValueError
Raised == "raised" \in DOMAIN ret.val[1]

\* C12: a call of send_control_frame or send_query_frame always ends by
\* returning a boolean; on a connected session it makes exactly one bus.send,
\* of a frame of its own type, and returns True exactly if that send
\* succeeded; the call leaves self.bus as it was, failed send or not.
C12_SendReturnsOutcome ==
    [][ ret'.op \in {"send_control_frame", "send_query_frame"}
          => /\ bus' = bus
             /\ ret'.val \in {<<TRUE>>, <<FALSE>>}
             /\ bus = "open"
                  => /\ Len(sent') = 1
                     /\ ret'.val = <<sent'[1].ok>>
                     /\ IdTypeCode(sent'[1]) =
                          IF ret'.op = "send_control_frame" THEN 4097 ELSE 4098
      ]_vars

\* C12 witness: send_control_frame returned False after its one send failed,
\* and the session is still connected
C12_Witness ==
    /\ ReturnedOpen("send_control_frame")
    /\ Len(sent) = 1
    /\ ~sent[1].ok
    /\ ret.val = <<FALSE>>

\* C15: on a connected session control_outputs, clear_faults and restart each
\* make exactly one send, of a Control frame, and no receive, and return
\* whether that send succeeded; the bytes are [fan, precharge, motor_output,
\* main_control, 0, 0, 0, 0] for control_outputs, [0,0,0,0,0,1,0,0] for
\* clear_faults and [0,0,0,0,1,0,0,0] for restart.
C15_CommandsSendOneFrame ==
    \A op \in {"control_outputs", "clear_faults", "restart"} :
        ReturnedOpen(op)
            => /\ Len(sent) = 1
               /\ sent[1].msg.is_extended_id
               /\ IdLowByte(sent[1]) = 170
               /\ IdTypeCode(sent[1]) = 4097
               /\ log = <<>>
               /\ ret.val = <<sent[1].ok>>
               /\ sent[1].msg.data =
                    CASE op = "control_outputs" ->
                            << IF args.v.fan THEN 1 ELSE 0,
                               IF args.v.precharge THEN 1 ELSE 0,
                               IF args.v.motor_output THEN 1 ELSE 0,
                               IF args.v.main_control THEN 1 ELSE 0,
                               0, 0, 0, 0 >>
                      [] op = "clear_faults" -> <<0, 0, 0, 0, 0, 1, 0, 0>>
                      [] op = "restart" -> <<0, 0, 0, 0, 1, 0, 0, 0>>

\* C15 witness: control_outputs(fan=True, motor_output=True) sent
\* [1,0,1,0,0,0,0,0] and returned True
C15_Witness ==
    /\ ReturnedOpen("control_outputs")
    /\ args.v = [fan |-> TRUE, precharge |-> FALSE,
                 motor_output |-> TRUE, main_control |-> FALSE]
    /\ Len(sent) = 1
    /\ sent[1].msg.data = <<1, 0, 1, 0, 0, 0, 0, 0>>
    /\ ret.val = <<TRUE>>

\* C16: for each of the four message types, extracting the target address and
\* the type code from the identifier _create_can_id built gives back 0xAA and
\* that type.
C16_IdentifierRoundTrip ==
    ret.op = "_create_can_id"
        => LET m == Message(ret.val[1], <<>>, TRUE)
           IN  /\ args.v \in {4097, 4098, 4099, 4100}
               /\ TargetAddr(m) = 170
               /\ MsgType(m) = args.v

\* C16 witness: the PowerData identifier was built and decodes to 0x1004
C16_Witness ==
    /\ ret.op = "_create_can_id"
    /\ args.v = 4100
    /\ MsgType(Message(ret.val[1], <<>>, TRUE)) = 4100

\* C17: every identifier _create_can_id builds has the extended-frame flag
\* (0x80000000) set, bits 7..0 = 0xAA, bits 20..8 = the type code and
\* bits 28..21 = 0; every frame handed to bus.send is marked extended and
\* carries such an identifier.
C17_IdentifierLayout ==
    LET Layout(id, type) ==
            /\ id.hi \div 32768 = 1
            /\ id.lo % 256 = 170
            /\ (id.hi % 32) * 256 + id.lo \div 256 = type
            /\ (id.hi \div 32) % 256 = 0
    IN  /\ ret.op = "_create_can_id" => Layout(ret.val[1], args.v)
        /\ \A i \in 1 .. Len(sent) :
              /\ sent[i].msg.is_extended_id
              /\ \E t \in {4097, 4098} : Layout(sent[i].msg.arbitration_id, t)

\* C17 witness: the Control identifier 0x801001AA was built
C17_Witness ==
    /\ ret.op = "_create_can_id"
    /\ args.v = 4097
    /\ ret.val[1] = [hi |-> 32784, lo |-> 426]

\* C18: for every combination of the eight flags send_control_frame sends
\* eight bytes, each 0 or 1, byte i being 1 exactly if flag i is set (order
\* fan, precharge_voltage, output_to_motor, main_control, restart,
\* clear_faults, auto_report, reserved); clear_faults alone gives
\* [0,0,0,0,0,1,0,0], all flags give eight ones, the defaults eight zeros.
C18_ControlPayload ==
    ReturnedOpen("send_control_frame")
        => LET d == sent[1].msg.data
               c == args.v
               flags == << c.fan, c.precharge_voltage, c.output_to_motor,
                           c.main_control, c.restart, c.clear_faults,
                           c.auto_report, c.reserved >>
               only(i) == \A j \in 1 .. 8 : flags[j] <=> (j = i)
           IN  /\ Len(d) = 8
               /\ \A i \in 1 .. 8 : d[i] \in {0, 1} /\ (d[i] = 1 <=> flags[i])
               /\ only(6) => d = <<0, 0, 0, 0, 0, 1, 0, 0>>
               /\ (\A j \in 1 .. 8 : flags[j]) => d = <<1, 1, 1, 1, 1, 1, 1, 1>>
               /\ (\A j \in 1 .. 8 : ~flags[j]) => d = <<0, 0, 0, 0, 0, 0, 0, 0>>

\* C18 witness: a control with restart and reserved set was sent as
\* [0,0,0,0,1,0,0,1]
C18_Witness ==
    /\ ReturnedOpen("send_control_frame")
    /\ args.v.restart /\ args.v.reserved /\ ~args.v.clear_faults
    /\ sent[1].msg.data = <<0, 0, 0, 0, 1, 0, 0, 1>>

\* C19: _parse_status_frame and _parse_power_data_frame raise the length
\* error on every payload of 0 to 7 bytes and never on one of exactly 8 bytes,
\* whatever the bytes are.
C19_LengthError ==
    ret.op \in {"_parse_status_frame", "_parse_power_data_frame"}
        => /\ Len(args.v) \in 0 .. 7 => Raised
           /\ Len(args.v) = 8 => ~Raised

\* C19 witness: the power parser refused a 7-byte payload
C19_Witness ==
    /\ ret.op = "_parse_power_data_frame"
    /\ Len(args.v) = 7
    /\ Raised

\* C20: for every 8-byte Status payload b (b[1] the first byte), battery
\* voltage, motor voltage and sampling current are the big-endian 16-bit
\* values of b[1..2], b[3..4], b[5..6] divided by 100, so between 0 and 655.35
\* in steps of 0.01, and fault_status is 256*b[7] + b[8], not scaled.
C20_StatusFields ==
    (ret.op = "_parse_status_frame" /\ Len(args.v) = 8)
        => LET b == args.v
               r == ret.val[1]
               Scaled(x, raw) ==
                   /\ x.hundredths \in 0 .. 99
                   /\ x.whole * 100 + x.hundredths = raw
                   /\ x.whole * 100 + x.hundredths \in 0 .. 65535
           IN  /\ Scaled(r.battery_voltage, 256 * b[1] + b[2])
               /\ Scaled(r.motor_voltage, 256 * b[3] + b[4])
               /\ Scaled(r.current_sampling, 256 * b[5] + b[6])
               /\ r.fault_status = 256 * b[7] + b[8]

\* C20 witness: the payload 00 39 FF FF 39 00 FF 00 was decoded as 0.57 V,
\* 655.35 V, 145.92 A and the fault word 0xFF00
C20_Witness ==
    /\ ret.op = "_parse_status_frame"
    /\ args.v = <<0, 57, 255, 255, 57, 0, 255, 0>>
    /\ ret.val[1].battery_voltage = [whole |-> 0, hundredths |-> 57]
    /\ ret.val[1].motor_voltage = [whole |-> 655, hundredths |-> 35]
    /\ ret.val[1].current_sampling = [whole |-> 145, hundredths |-> 92]
    /\ ret.val[1].fault_status = 65280

\* C21 as claimed: _parse_status_frame of 30 39 27 10 00 64 00 05 gives
\* battery 123.45, motor 100.16, current 1.00 and fault_status 5.
C21_ExampleAsClaimed ==
    (ret.op = "_parse_status_frame" /\ args.v = <<48, 57, 39, 16, 0, 100, 0, 5>>)
        => /\ ret.val[1].battery_voltage = [whole |-> 123, hundredths |-> 45]
           /\ ret.val[1].motor_voltage = [whole |-> 100, hundredths |-> 16]
           /\ ret.val[1].current_sampling = [whole |-> 1, hundredths |-> 0]
           /\ ret.val[1].fault_status = 5

\* C21 amended: _parse_status_frame of 30 39 27 10 00 64 00 05 gives battery
\* 123.45, motor 100.00 (0x2710 = 10000), current 1.00 and fault_status 5.
C21_Example ==
    (ret.op = "_parse_status_frame" /\ args.v = <<48, 57, 39, 16, 0, 100, 0, 5>>)
        => /\ ret.val[1].battery_voltage = [whole |-> 123, hundredths |-> 45]
           /\ ret.val[1].motor_voltage = [whole |-> 100, hundredths |-> 0]
           /\ ret.val[1].current_sampling = [whole |-> 1, hundredths |-> 0]
           /\ ret.val[1].fault_status = 5

\* C21 witness: the example payload was decoded, and the motor voltage is not
\* the claimed 100.16
C21_Witness ==
    /\ ret.op = "_parse_status_frame"
    /\ args.v = <<48, 57, 39, 16, 0, 100, 0, 5>>
    /\ ~Raised
    /\ ret.val[1].motor_voltage # [whole |-> 100, hundredths |-> 16]

\* C22: for every 8-byte PowerData payload b, left_leg, right_leg, left_arm
\* and right_arm power are the big-endian 16-bit values of b[1..2], b[3..4],
\* b[5..6], b[7..8] divided by 100; 03 E8 03 E8 01 F4 01 F4 gives 10.00,
\* 10.00, 5.00, 5.00.
C22_PowerFields ==
    (ret.op = "_parse_power_data_frame" /\ Len(args.v) = 8)
        => LET b == args.v
               r == ret.val[1]
               Scaled(x, raw) ==
                   /\ x.hundredths \in 0 .. 99
                   /\ x.whole * 100 + x.hundredths = raw
           IN  /\ Scaled(r.left_leg_power, 256 * b[1] + b[2])
               /\ Scaled(r.right_leg_power, 256 * b[3] + b[4])
               /\ Scaled(r.left_arm_power, 256 * b[5] + b[6])
               /\ Scaled(r.right_arm_power, 256 * b[7] + b[8])
               /\ b = <<3, 232, 3, 232, 1, 244, 1, 244>>
                    => r = [left_leg_power  |-> [whole |-> 10, hundredths |-> 0],
                            right_leg_power |-> [whole |-> 10, hundredths |-> 0],
                            left_arm_power  |-> [whole |-> 5, hundredths |-> 0],
                            right_arm_power |-> [whole |-> 5, hundredths |-> 0]]

\* C22 witness: the example payload was decoded as 10.00, 10.00, 5.00, 5.00
C22_Witness ==
    /\ ret.op = "_parse_power_data_frame"
    /\ args.v = <<3, 232, 3, 232, 1, 244, 1, 244>>
    /\ ret.val[1].left_leg_power = [whole |-> 10, hundredths |-> 0]
    /\ ret.val[1].right_arm_power = [whole |-> 5, hundredths |-> 0]

\* C23: for every fault word, get_faults reports fault i exactly if bit i of
\* the word is set, i = 0..7 in the order power-chip overcurrent, power-chip
\* overtemp, power-chip short-circuit, sampling overcurrent, bus overvoltage,
\* bus undervoltage, motor-bus overvoltage, motor-bus undervoltage; bits 8..15
\* have no influence; the word 5 reports exactly power-chip overcurrent and
\* power-chip short-circuit.
C23_FaultBits ==
    ret.op = "get_faults"
        => LET f == ret.val[1]
               low == args.v % 256
               bit(i) == (low \div (2 ^ i)) % 2 = 1
           IN  /\ f.power_chip_overcurrent <=> bit(0)
               /\ f.power_chip_overtemp <=> bit(1)
               /\ f.power_chip_short_circuit <=> bit(2)
               /\ f.sampling_overcurrent <=> bit(3)
               /\ f.vbus_overvoltage <=> bit(4)
               /\ f.vbus_undervoltage <=> bit(5)
               /\ f.vmbus_overvoltage <=> bit(6)
               /\ f.vmbus_undervoltage <=> bit(7)
               /\ args.v = 5
                    => f = [power_chip_overcurrent |-> TRUE,
                            power_chip_overtemp |-> FALSE,
                            power_chip_short_circuit |-> TRUE,
                            sampling_overcurrent |-> FALSE,
                            vbus_overvoltage |-> FALSE,
                            vbus_undervoltage |-> FALSE,
                            vmbus_overvoltage |-> FALSE,
                            vmbus_undervoltage |-> FALSE]

\* C23 witness: the word 0xFF05, all high bits set, reported exactly
\* power-chip overcurrent and power-chip short-circuit
C23_Witness ==
    /\ ret.op = "get_faults"
    /\ args.v = 65285
    /\ ret.val[1].power_chip_overcurrent
    /\ ret.val[1].power_chip_short_circuit
    /\ ~ret.val[1].power_chip_overtemp
    /\ ~ret.val[1].vmbus_undervoltage

\* C24: connect always ends by returning a boolean; when opening the bus
\* failed it returns False and leaves self.bus as it was, so a session that was
\* not connected stays not connected; and no step other than a successful
\* connect takes a session from not connected to connected.
C24_ConnectFailureReported ==
    [][ /\ ret'.op = "connect"
            => /\ ret'.val \in {<<TRUE>>, <<FALSE>>}
               /\ ret'.val = <<FALSE>> => bus' = bus
               /\ ret'.val = <<TRUE>> => bus' = "open"
        /\ (bus = "none" /\ bus' = "open")
            => ret' = [op |-> "connect", val |-> <<TRUE>>]
      ]_vars

\* C24 witness: connect returned False and the session is not connected
C24_Witness ==
    /\ pc = "idle"
    /\ ret = [op |-> "connect", val |-> <<FALSE>>]
    /\ bus = "none"

\* C26: get_status ends only by returning; a Status or PowerData frame
\* addressed to 0xAA with fewer than 8 payload bytes leaves the call in its
\* wait with status_data, power_data and the deadline unchanged; and a
\* well-formed Status frame received after such a frame is returned, with the
\* power reading decoded before it.
C26_ShortFrameSkippedInQuery ==
    [][ /\ (InQuery /\ pc' = "idle") => ret'.op = "get_status"
        /\ (InQuery /\ Received /\ ShortFrame(Newest(log')))
             => /\ pc' = "gs_loop"
                /\ ret' = ret
                /\ status_data' = status_data
                /\ power_data' = power_data
                /\ start_time' = start_time
        /\ (InQuery /\ Received /\ GoodStatus(Newest(log'))
                    /\ \E i \in 1 .. Len(log) : ShortFrame(log[i]))
             => /\ pc' = "idle"
                /\ ret'.val = Some([status |-> Some(_parse_status_frame(
                                                       Newest(log').msg.data)),
                                    power |-> LastPower(log)])
      ]_vars

\* C26 witness: a call received a PowerData frame, a short frame and a Status
\* frame, and returned the Status with the power reading of the first
C26_Witness ==
    /\ QueryReturned
    /\ Len(log) = 3
    /\ GoodPower(log[1]) /\ ShortFrame(log[2]) /\ GoodStatus(log[3])
    /\ ret.val # None
    /\ ret.val[1].power = Some(_parse_power_data_frame(log[1].msg.data))

\* C27: a stream that is in its loop leaves it only by cancellation: every
\* step from the loop stays in the loop or enters the cancellation handler,
\* only the handler returns, and every receive outcome (a frame of any kind,
\* a receive error) leaves the stream in the loop, at the print that leads
\* back to the receive or at the receive itself.
C27_StreamEndsOnlyByCancel ==
    [][ /\ pc \in {"st_loop", "st_print"}
            => pc' \in {"st_loop", "st_print", "st_cancel"}
        /\ (InStream /\ pc' = "idle") => pc = "st_cancel"
        /\ (InStream /\ Received)
            => /\ pc' \in {"st_loop", "st_print"}
               /\ ret' = ret
      ]_vars

\* C27 witness: a stream that got a receive error, a non-extended frame and a
\* short frame is at its next receive
C27_Witness ==
    /\ pc = "st_loop"
    /\ Len(log) = 3
    /\ log[1].kind = "error"
    /\ log[2].kind = "msg" /\ ~log[2].msg.is_extended_id
    /\ ShortFrame(log[3])

\* C28: when the Query frame cannot be sent, get_status has returned None in
\* the step of the call, with no receive and no further send.
C28_QuerySendFailureReturnsNone ==
    (bus = "open" /\ (InQuery \/ QueryReturned) /\ sent # <<>> /\ ~sent[1].ok)
        => /\ pc = "idle"
           /\ ret.val = None
           /\ log = <<>>
           /\ Len(sent) = 1

\* C28 witness: a get_status whose Query send failed has returned None
C28_Witness ==
    /\ bus = "open"
    /\ QueryReturned
    /\ Len(sent) = 1
    /\ ~sent[1].ok
    /\ IdTypeCode(sent[1]) = 4098
    /\ ret.val = None

\* C29 as claimed: the value of _create_can_id, and the arbitration identifier
\* of every frame sent, lies in 0 .. 2^29 - 1 (its upper 16-bit half is below
\* 2^13).
C29_IdentifierWithin29Bits ==
    /\ ret.op = "_create_can_id" => ret.val[1].hi < 8192
    /\ \A i \in 1 .. Len(sent) : sent[i].msg.arbitration_id.hi < 8192

\* the bus.send attempts of a history that succeeded
SentOk(l) == SelectSeq(l, LAMBDA a : a.ok)

\* C30 as claimed: while a stream is in its loop (after its enable frame, before
\* its cancellation) the most recent Control frame sent on the session carries
\* auto-report = 1, whatever control_outputs, clear_faults and restart calls
\* another worker has made meanwhile.
C30_AutoReportStaysOn ==
    (pc \in {"st_loop", "st_print"} /\ SentOk(sent) # <<>>)
        => Newest(SentOk(sent)).msg.data[7] = 1

---------------------------------------------------------------------------
(* Claims about frames already queued, the frame format and a session that is
   not connected *)

\* the reading of the first well-formed Status frame of a log
RECURSIVE FirstStatus(_)
FirstStatus(l) ==
    IF l = <<>> THEN None
    ELSE IF GoodStatus(Head(l)) THEN Some(_parse_status_frame(Head(l).msg.data))
    ELSE FirstStatus(Tail(l))

\* the frames queued before the Query send, as log entries
QueuedLog == [i \in 1 .. Len(args.v) |-> [kind |-> "msg", msg |-> args.v[i]]]

\* C31: get_status does not empty the receive queue and does not match replies
\* to its query: the frames that were queued before the Query send are the
\* first ones the call receives, in order, and the Status it returns is that of
\* the first well-formed Status frame addressed to 0xAA it receives, hence of
\* a queued one whenever the queue holds one.
C31_NoFlushNoCorrelation ==
    /\ (InQuery \/ QueryReturned)
         => \A i \in 1 .. Len(log) : i <= Len(args.v) => log[i] = QueuedLog[i]
    /\ (QueryReturned /\ ret.val # None)
         => /\ ret.val[1].status = FirstStatus(log)
            /\ FirstStatus(QueuedLog) # None
                 => ret.val[1].status = FirstStatus(QueuedLog)

\* C31 witness: with a PowerData and a Status frame queued before the Query,
\* the call returned that queued Status after two receives
C31_Witness ==
    /\ QueryReturned
    /\ Len(args.v) = 2
    /\ GoodPower(QueuedLog[1]) /\ GoodStatus(QueuedLog[2])
    /\ Len(log) = 2
    /\ ret.val # None
    /\ ret.val[1].status = Some(_parse_status_frame(args.v[2].data))

\* a frame that is not extended although the low 8 bits of its identifier are
\* 0xAA and its type field is Status or PowerData
NonExtendedBoardFrame(e) ==
    /\ e.kind = "msg"
    /\ ~e.msg.is_extended_id
    /\ IdLowByte(e) = 170
    /\ IdTypeCode(e) \in {4099, 4100}

\* C32: a frame that is not extended is skipped by both loops even when its
\* identifier reads as a Status or PowerData frame for 0xAA: get_status stays
\* in its wait with its readings unchanged, and the stream goes back to its
\* receive without updating latest_status or latest_power and without
\* reaching the print.
C32_NonExtendedSkipped ==
    [][ /\ (InQuery /\ Received /\ NonExtendedBoardFrame(Newest(log')))
             => /\ pc' = "gs_loop"
                /\ ret' = ret
                /\ status_data' = status_data
                /\ power_data' = power_data
        /\ (pc = "st_loop" /\ Received /\ NonExtendedBoardFrame(Newest(log')))
             => /\ pc' = "st_loop"
                /\ ret' = ret
                /\ latest_status' = latest_status
                /\ latest_power' = latest_power
                /\ rows' = rows
      ]_vars

\* C32 witness: a stream printed one row for a Status frame, then received a
\* non-extended frame with the same identifier and is at its next receive
C32_Witness ==
    /\ pc = "st_loop"
    /\ Len(log) = 2
    /\ GoodStatus(log[1])
    /\ NonExtendedBoardFrame(log[2])
    /\ Len(rows) = 1

\* C33: on a session that is not connected send_control_frame and
\* send_query_frame have returned False, get_status None and
\* stream_auto_report at once, none of them with a send or a receive, and no
\* loop is entered; after disconnect, a first or a repeated one, the session
\* is not connected.
C33_NotConnected ==
    /\ bus = "none"
         => /\ pc = "idle"
            /\ sent = <<>>
            /\ log = <<>>
            /\ rows = <<>>
            /\ ret.op \in {"send_control_frame", "send_query_frame"}
                 => ret.val = <<FALSE>>
            /\ ret.op \in {"get_status", "stream"} => ret.val = None
    /\ ret.op = "disconnect" => bus = "none"

\* C33 witness: send_control_frame with the fan flag was called on a session
\* that is not connected and returned False
C33_Witness ==
    /\ bus = "none"
    /\ args.kind = "control"
    /\ args.v.fan
    /\ ret = [op |-> "send_control_frame", val |-> <<FALSE>>]
    /\ sent = <<>>

---------------------------------------------------------------------------
(* Tele-operation *)

\* every field of a command vector is zero
AllZeros(c) == \A f \in DOMAIN c : IsZero(c[f])

\* every member of a datagram's JSON object is zero
CarriesOnlyZeros(d) == \A i \in DOMAIN d : IsZero(d[i][2])

\* the fields the running program's command vector has
ProgramFields == IF args.kind = "joystick16" THEN Fields16 ELSE Fields

\* the sticks are away from their centre
SticksDeflected ==
    /\ ~IsZero(ctrl.JOYSTICK_LEFT_X)
    /\ ~IsZero(ctrl.JOYSTICK_LEFT_Y)
    /\ ~IsZero(ctrl.JOYSTICK_RIGHT_X)

\* C34: dead-man gating. After a command update that read LB as not
\* pressed, the command vector has all its fields (3, or 16 in the 16-field
\* program) at zero whatever the sticks and max_cmd are, and every datagram
\* sent after that update carries those fields with zeros only.
C34_DeadManGating ==
    updated = "RELEASED" =>
        /\ DOMAIN cmds = Range(ProgramFields)
        /\ AllZeros(cmds)
        /\ \A i \in DOMAIN datagrams :
              /\ Len(datagrams[i]) = Len(ProgramFields)
              /\ \A k \in DOMAIN ProgramFields :
                    datagrams[i][k][1] = ProgramFields[k]
              /\ CarriesOnlyZeros(datagrams[i])

\* C34 witness: the 16-field program updated with LB released while the
\* sticks were deflected and max_cmd had been raised, and sent its datagram
C34_Witness ==
    /\ args.kind = "joystick16"
    /\ updated = "RELEASED"
    /\ ctrl.btns.LB = "RELEASED"
    /\ SticksDeflected
    /\ FloatLess(InitialMaxCmd, max_cmd)
    /\ Len(datagrams) = 1
    /\ CarriesOnlyZeros(datagrams[1])

\* the multiple of 0.1 nearest to a float, as its number of tenths
Tenths(m) == ((m[1] \div 2 ^ 10) * 10 + 2 ^ 18) \div 2 ^ 19

\* a float is a multiple of 0.1 up to the rounding of its additions: it lies
\* within 2^-28 of Tenths(m) / 10
OnGrid(m) ==
    LET k == Tenths(m)
        d == m[1] - (k * 53687091 + (2 * k) \div 10)
    IN  d \in -1 .. 1

InRange(m) == ~FloatLess(m, _ultimate_min) /\ ~FloatLess(_ultimate_max, m)

\* the controller thread's step calls increase_max_cmd / decrease_max_cmd
EdgeStep == tele_pc.input = "edges" /\ tele_pc'.input = "update"
IncreaseCalled == EdgeStep /\ rising_edge(ctrl, "UP")
DecreaseCalled == EdgeStep /\ ~rising_edge(ctrl, "UP") /\ rising_edge(ctrl, "DOWN")

\* C35: from the initial 0.5, max_cmd stays within [0.1, 1.5] and on the
\* multiples of 0.1 (up to float rounding): an increase_max_cmd call moves it
\* one tenth up and a decrease_max_cmd call one tenth down, both clamped at
\* the bounds, so that an increase at 1.5 and a decrease at 0.1 leave it
\* unchanged; no other step changes it.
C35_MaxCmdClamped ==
    [][ /\ InRange(max_cmd) /\ InRange(max_cmd')
        /\ OnGrid(max_cmd) /\ OnGrid(max_cmd')
        /\ IncreaseCalled =>
              /\ Tenths(max_cmd') =
                    IF Tenths(max_cmd) < Tenths(_ultimate_max)
                    THEN Tenths(max_cmd) + 1 ELSE Tenths(_ultimate_max)
              /\ max_cmd = _ultimate_max => max_cmd' = max_cmd
        /\ DecreaseCalled =>
              /\ Tenths(max_cmd') =
                    IF Tenths(max_cmd) > Tenths(_ultimate_min)
                    THEN Tenths(max_cmd) - 1 ELSE Tenths(_ultimate_min)
              /\ max_cmd = _ultimate_min => max_cmd' = max_cmd
        /\ ~(IncreaseCalled \/ DecreaseCalled) => max_cmd' = max_cmd
      ]_vars

\* C35 witness: decrease_max_cmd has just run on a rising edge of DOWN and
\* max_cmd is at its lower bound
C35_Witness ==
    /\ tele_pc.input = "update"
    /\ rising_edge(ctrl, "DOWN")
    /\ max_cmd = _ultimate_min

\* how long ago stdin last showed a key
SinceInput == clock - last_input[1]

\* the stdin thread has run the iteration of the current 0.05 s
Expired == tele_pc.input = "select"

\* the main loop has run the command update of the current 0.05 s
UpdatedNow == tele_pc.main # "update"

\* every pressed key was seen at most 0.25 s ago, or 0.30 s ago while the
\* iteration that releases it is due; with no key seen for more than 0.25 s
\* no key is pressed and the axes are 0; one main-loop period later the
\* command vector and the datagram sent hold zeros
KeysExpire ==
    /\ \A code \in _pressed_codes :
          /\ code \in DOMAIN _key_last_seen
          /\ clock - _key_last_seen[code]
                <= _repeat_release_s + (IF Expired THEN 0 ELSE 1)
    /\ (last_input # None /\ SinceInput > _repeat_release_s /\ Expired)
          => /\ _pressed_codes = {}
             /\ get_normalized_axes(_pressed_codes) = <<PosZero, PosZero, PosZero>>
    /\ (last_input # None /\ SinceInput > _repeat_release_s + 1 /\ UpdatedNow)
          => /\ AllZeros(cmds)
             /\ \A i \in DOMAIN datagrams : CarriesOnlyZeros(datagrams[i])

\* C36: in stdin mode a key marked pressed stays pressed while it is seen
\* again within 0.25 s and is released by the first loop iteration that finds
\* more than 0.25 s elapsed since it was last seen; so once key input has
\* stopped for that long every key is released, the normalized axes are 0,
\* and from the next command update on XVel, YVel and YawRate are 0.
C36_KeysReleasedAfterInputStops ==
    [][ /\ KeysExpire
        /\ KeysExpire'
        /\ \A code \in _pressed_codes \ _pressed_codes' :
              clock' - _key_last_seen[code] > _repeat_release_s
      ]_vars

\* C36 witness: a key was read twice, the second time after max_cmd had time
\* to be adjusted; 0.35 s after the last input no key is pressed and the
\* datagram of this period holds only zeros
C36_Witness ==
    /\ args.kind = "keyboard"
    /\ reads = 2
    /\ last_input # None
    /\ last_input[1] >= _adjust_interval_s
    /\ SinceInput = _repeat_release_s + 2
    /\ _pressed_codes = {}
    /\ tele_pc.main = "sleep"
    /\ Len(datagrams) = 1
    /\ CarriesOnlyZeros(datagrams[1])

====
